---- MODULE Spec2Model ----
(***************************************************************************)
(* A model of the grpc-plugin runner: the port manager, the manifest       *)
(* validation, the plugin loader (LoadAll / LoadPlugin) and the registry   *)
(* of loaded plugins (LoadedPlugins.Close and the read operations).        *)
(*                                                                         *)
(* and the credentials of internal/transport, the LoggerOptions of the     *)
(* configuration and the plugin side's StartPlugin.                        *)
(*                                                                         *)
(* The specifications:                                                     *)
(*   Spec          one LoadAll call, followed by the caller's Close calls; *)
(*   SpecLoad      one LoadAll call followed until it returns;             *)
(*   SpecManifest  the validation of a manifest;                           *)
(*   SpecPM        a PortManager used directly by arbitrary callers;       *)
(*   SpecPKI       a leaf credential: issued, serialized, parsed back and  *)
(*                 used in a TLS handshake;                                *)
(*   SpecRead      one LoadAll call, the caller's reads of the registry    *)
(*                 and one Close call;                                     *)
(*   SpecLogger    a LoggerOptions record encoded to JSON and decoded;     *)
(*   SpecStub      one plugin process running StartPlugin;                 *)
(*   SpecAttempts  GetPort calls under arbitrary bind failures;            *)
(*   SpecDir       one LoadAll call on manifests with absolute paths;      *)
(*   SpecWatch     Spec with the watcher goroutines of os/exec scheduled.  *)
(***************************************************************************)
EXTENDS Integers, Sequences, FiniteSets, TLC

VARIABLES
    \* ---- portmanager.PortManager
    usedPorts,      \* pm.usedPorts: the set of leased ports
    lastAssigned,   \* pm.lastAssigned: the cursor
    \* ---- the caller's inputs and the environment of one LoadAll call
    manifest,       \* the ManifestConfig handed to LoadAll: [Plugins, UseCustomTLS]
    allowDotDot,    \* os.Getenv("GRPC_PLUGINS_ALLOW_RELATIVE_PATHS_DOUBLE_DOT")
    ctxDone,        \* the caller's context has been cancelled
    \* ---- LoadAll
    pc,             \* position of the LoadAll call
    idx,            \* index of the descriptor the loop is at
    loadErr,        \* loadErr of LoadAll ("" is nil)
    loadResult,     \* "none" while running, then "ok" (registry, nil) or "err" (nil, error)
    retErr,         \* the error LoadAll returned ("" is nil)
    caCreated,      \* GeneratePrivateCA has run
    pmCreated,      \* portmanager.New has run
    pluginsMap,     \* LoadedPlugins.pluginsMap: name -> [Port, Process]
    \* ---- plugin subprocesses, identified by the index of their descriptor
    proc,           \* "none" | "running" | "terminated"
    procPort,       \* the port handed to the subprocess (0: none)
    procDir,        \* cmd.Dir of the subprocess (<<>>: none)
    sigterms,       \* number of syscall.Kill(-pid, SIGTERM) calls issued on its group
    acquired,       \* ports GetPort has returned to this LoadAll call
    releases,       \* number of successful ReleasePort calls per port of this call
    \* ---- LoadedPlugins.Close calls: 0 is LoadAll's deferred call, 1.. the caller's
    closers,
    \* ---- SpecPM: the direct callers' view of the port manager
    held,           \* ports returned by GetPort and not since successfully released
    pmOps,          \* number of calls made so far
    pmLast,         \* the last call: what was asked, what came back, the state before
    \* ---- SpecPKI: one leaf credential
    pkiIn,          \* the arguments of GenerateKeyAndCertFromCA and what crypto/rand gives it
    pkiCred,        \* what GenerateKeyAndCertFromCA returned
    pkiWire,        \* what Serialize returned for it
    pkiBack,        \* what DeserializeKeyAndCert returned for that
    pkiHs,          \* a TLS handshake under the configuration GetTLSConfig built
    \* ---- SpecRead: the caller's read operations on the registry
    lastRead,       \* the last read: what was asked and what came back
    \* ---- SpecLogger: one LoggerOptions record through MarshalJSON / UnmarshalJSON
    logopts,        \* the record, its JSON object and the record decoded from it
    \* ---- SpecStub: one plugin process running StartPlugin
    stub            \* the goroutines of StartPlugin and what its flags and its
                    \* environment give them

pmVars     == <<usedPorts, lastAssigned>>
inputVars  == <<manifest, allowDotDot>>
loadVars   == <<pc, idx, loadErr, loadResult, retErr, caCreated, pmCreated, pluginsMap>>
procVars   == <<proc, procPort, procDir, sigterms, acquired, releases>>
clientVars == <<held, pmOps, pmLast>>
pkiVars    == <<pkiIn, pkiCred, pkiWire, pkiBack, pkiHs>>
sideVars   == <<logopts, stub>>
vars == <<pmVars, inputVars, ctxDone, loadVars, procVars, closers, clientVars, pkiVars,
          lastRead, sideVars>>

\* what the actions of SpecPM leave alone
outsidePM == <<inputVars, ctxDone, loadVars, procVars, closers, pkiVars, lastRead, sideVars>>
\* what the actions of Spec leave alone
outsideLoader == <<clientVars, pkiVars, lastRead, sideVars>>
\* what the actions of SpecPKI leave alone
outsidePKI == <<pmVars, inputVars, ctxDone, loadVars, procVars, closers, clientVars,
                lastRead, sideVars>>

-----------------------------------------------------------------------------
(* Bounds of the model *)

\* longest manifest handed to LoadAll when the caller goes on to call Close
MaxPlugins == 2
\* longest manifest handed to LoadAll when the call is followed to its return
MaxLoadPlugins == 3
\* number of calls the direct callers of SpecPM make
MaxPMOps == 3
\* how far below maxPort the cursor of SpecPM may start
CursorSlack == 2

-----------------------------------------------------------------------------
(* portmanager *)

minPort == 40000
maxPort == 50000
maxAttempts == 10

\* New(): no lease, cursor just below the range
New == [usedPorts |-> {}, lastAssigned |-> minPort - 1]

\* pm.lastAssigned++ ; if pm.lastAssigned > maxPort { pm.lastAssigned = minPort }
NextCursorNoWrap(last) == last + 1
NextCursor(last) == IF last + 1 > maxPort THEN minPort ELSE last + 1

\* _, exists := pm.usedPorts[pm.lastAssigned]
LeasedNever(used, port) == FALSE
Leased(used, port) == port \in used

\* pm.usedPorts[pm.lastAssigned] = struct{}{}
MarkUsedNot(used, port) == used
MarkUsed(used, port) == used \cup {port}

\* The loop of GetPort from attempt `attempt` on. `busy` is the environment:
\* the ports on which net.Listen fails.
RECURSIVE GetPortLoop(_, _, _, _)
GetPortLoop(used, last, busy, attempt) ==
    IF attempt >= maxAttempts
    THEN [port |-> 0, err |-> TRUE, usedPorts |-> used, lastAssigned |-> last]
    ELSE LET next == NextCursor(last) IN
         IF Leased(used, next)
         THEN GetPortLoop(used, next, busy, attempt + 1)
         ELSE IF next \in busy
         THEN GetPortLoop(used, next, busy, attempt + 1)
         ELSE [port |-> next, err |-> FALSE,
               usedPorts |-> MarkUsed(used, next), lastAssigned |-> next]

\* GetPort under pm.mu: the mutex makes the whole call one atomic step
GetPort(used, last, busy) == GetPortLoop(used, last, busy, 0)

\* port < minPort || port > maxPort
OutOfRangeNever(port) == FALSE
OutOfRange(port) == port < minPort \/ port > maxPort

\* delete(pm.usedPorts, port)
DeleteLeaseNot(used, port) == used
DeleteLease(used, port) == used \ {port}

\* ReleasePort: the range check, then the delete under pm.mu
ReleasePort(used, port) ==
    IF OutOfRange(port)
    THEN [err |-> TRUE, usedPorts |-> used]
    ELSE [err |-> FALSE, usedPorts |-> DeleteLease(used, port)]

\* The environment of one GetPort call: net.Listen fails on the first k
\* candidates after the cursor. Every outcome of the loop arises from some k.
RECURSIVE Ahead(_, _)
Ahead(last, k) == IF k = 0 THEN last ELSE NextCursor(Ahead(last, k - 1))
BusyPrefix(last, k) == {Ahead(last, j) : j \in 1..k}

-----------------------------------------------------------------------------
(* config: ManifestPlugin and ManifestConfig. A path is the sequence of its *)
(* elements; an absolute path starts with the element "/".                 *)

\* os.Getwd() of the runner
Cwd == <<"/", "w">>

\* filepath.IsAbs
IsAbs(path) == Len(path) > 0 /\ path[1] = "/"

\* strings.Contains(p.Path, ".."): an element holding two consecutive dots
ContainsDotDotNever(path) == FALSE
ContainsDotDot(path) == \E i \in 1..Len(path) : path[i] \in {"..", "a..b"}

\* filepath.Clean: drops ".", resolves ".." against the element before it
RECURSIVE CleanFrom(_, _)
CleanFrom(out, rest) ==
    IF rest = <<>> THEN out
    ELSE LET seg == Head(rest) IN
         IF seg = "." THEN CleanFrom(out, Tail(rest))
         ELSE IF seg = ".."
         THEN IF out = <<"/">> THEN CleanFrom(out, Tail(rest))
              ELSE IF Len(out) > 0 /\ out[Len(out)] # ".."
              THEN CleanFrom(SubSeq(out, 1, Len(out) - 1), Tail(rest))
              ELSE CleanFrom(Append(out, seg), Tail(rest))
         ELSE CleanFrom(Append(out, seg), Tail(rest))
Clean(path) == LET c == CleanFrom(<<>>, path) IN IF c = <<>> THEN <<".">> ELSE c

\* filepath.Abs: an absolute path is cleaned, a relative one joined to the cwd
Abs(path) == IF IsAbs(path) THEN Clean(path) ELSE Clean(Cwd \o path)

\* filepath.Join(a, b): the elements of both, separated, then cleaned; the
\* leading separator of an absolute b is only a separator after a
Join(a, b) == Clean(a \o (IF IsAbs(b) THEN Tail(b) ELSE b))

\* buildAndRunPlugin: cmd.Dir = filepath.Join(wd, pluginConfig.Path), wd = os.Getwd()
PluginDir(plugin) == Join(Cwd, plugin.Path)

\* filepath.Base: the last element
Base(path) == IF path = <<>> THEN "." ELSE path[Len(path)]

\* ManifestPlugin.GetName
GetName(p) ==
    IF p.Name # "" THEN p.Name
    ELSE IF p.Path # <<>> THEN Base(p.Path)
    ELSE "plugin_random"

\* ManifestPlugin.Validate: "" is nil
PluginValidateNot(p, env) == ""
PluginValidate(p, env) ==
    IF p.Path = <<>> THEN "plugin path cannot be empty"
    ELSE IF ~IsAbs(p.Path) /\ ContainsDotDot(p.Path) /\ env # "true"
    THEN "plugin path cannot contain '..'"
    ELSE IF p.Kind = "build_and_run" THEN ""
    ELSE IF p.Kind = "" THEN "plugin kind cannot be empty"
    ELSE "unsupported plugin kind"

\* the loop of ManifestConfig.Validate from descriptor i on
ValidateFromNot(plugins, i, seenNames, seenPaths, env) ==
    IF \E j \in i..Len(plugins) : PluginValidate(plugins[j], env) # ""
    THEN "invalid plugin" ELSE ""
RECURSIVE ValidateFrom(_, _, _, _, _)
ValidateFrom(plugins, i, seenNames, seenPaths, env) ==
    IF i > Len(plugins) THEN ""
    ELSE LET plugin == plugins[i]
             name == GetName(plugin)
             absPath == Abs(plugin.Path)
         IN  IF PluginValidate(plugin, env) # "" THEN "invalid plugin"
             ELSE IF name \in seenNames THEN "duplicate plugin name"
             ELSE IF absPath \in seenPaths THEN "duplicate plugin path"
             ELSE ValidateFrom(plugins, i + 1, seenNames \cup {name},
                               seenPaths \cup {absPath}, env)

\* ManifestConfig.Validate (TLSConfig.Validate never fails)
ManifestConfigValidate(c, env) ==
    IF Len(c.Plugins) = 0 THEN "manifest must contain at least one plugin"
    ELSE ValidateFrom(c.Plugins, 1, {}, {}, env)

\* LoadManifest: the configuration is returned iff it validates
LoadManifest(c, env) == ManifestConfigValidate(c, env)

\* The descriptors the manifests of the model are made of
DescriptorPool ==
    { [Name |-> "",  Path |-> <<"a">>,            Kind |-> "build_and_run"],
      [Name |-> "b", Path |-> <<"b">>,            Kind |-> "build_and_run"],
      [Name |-> "c", Path |-> <<"..", "c">>,      Kind |-> "build_and_run"],
      [Name |-> "k", Path |-> <<"k">>,            Kind |-> "binary"],
      [Name |-> "e", Path |-> <<>>,               Kind |-> "build_and_run"] }

SeqsUpTo(S, n) == UNION {[1..m -> S] : m \in 0..n}

Manifests ==
    { [Plugins |-> ps, UseCustomTLS |-> tls] :
        ps \in SeqsUpTo(DescriptorPool, MaxPlugins), tls \in BOOLEAN }

EnvValues == {"", "true", "1"}

\* one more descriptor for the manifests of SpecLoad: it has the effective name
\* of the first descriptor of the pool and the absolute path of the second
LoadDescriptorPool ==
    DescriptorPool \cup
    { [Name |-> "a", Path |-> <<".", "b">>, Kind |-> "build_and_run"] }

LoadManifests ==
    { [Plugins |-> ps, UseCustomTLS |-> tls] :
        ps \in SeqsUpTo(LoadDescriptorPool, MaxLoadPlugins), tls \in BOOLEAN }

\* more descriptors for the manifests of SpecManifest: absolute paths with and
\* without a parent-directory element, and a file name with two dots in it
ValidateDescriptorPool ==
    LoadDescriptorPool \cup
    { [Name |-> "d", Path |-> <<"/", "..", "d">>,  Kind |-> "build_and_run"],
      [Name |-> "g", Path |-> <<"/", "w", "a">>,   Kind |-> "build_and_run"],
      [Name |-> "f", Path |-> <<"a..b">>,          Kind |-> "build_and_run"] }

ValidateManifests ==
    { [Plugins |-> ps, UseCustomTLS |-> tls] :
        ps \in SeqsUpTo(ValidateDescriptorPool, MaxPlugins), tls \in BOOLEAN }

-----------------------------------------------------------------------------
(* transport: keys, certificates and credentials. A byte is a number in    *)
(* 0..255, a byte string a sequence of bytes, a Go string a sequence of    *)
(* one-character strings. An RSA key is the record of its numbers; a       *)
(* certificate in DER is the byte string                                   *)
(*   <<tag, serial, modulus of the signing key, modulus of the certified   *)
(*     key, extended key usage>> followed by the bytes of the common name, *)
(* and verifying its signature is comparing the modulus of the signing key.*)

orgName == "GRPC_Plugins"

\* the characters of the model; "X" is a byte that is not valid UTF-8, "R"
\* the replacement character U+FFFD
CharCode == [c \in {"a", "\"", "\\", "<", "X", "R"} |->
               CASE c = "a" -> 97 [] c = "\"" -> 34 [] c = "\\" -> 92
                 [] c = "<" -> 60 [] c = "X" -> 255 [] c = "R" -> 239]
CodeChar(b) == CHOOSE c \in DOMAIN CharCode : CharCode[c] = b

\* utf8.ValidString
ValidUTF8(str) == \A i \in 1..Len(str) : str[i] # "X"

\* x509.MarshalPKCS1PrivateKey
MarshalPKCS1PrivateKey(key) == <<48, 0, key.N, key.E, key.D, key.P, key.Q>>

NoKey == [N |-> 0, E |-> 0, D |-> 0, P |-> 0, Q |-> 0]

\* x509.ParsePKCS1PrivateKey: the structure, the version, and key.Validate()
ParsePKCS1PrivateKey(der) ==
    IF Len(der) = 7 /\ der[1] = 48 /\ der[2] = 0 /\ der[3] = der[6] * der[7]
    THEN [ok |-> TRUE,
          key |-> [N |-> der[3], E |-> der[4], D |-> der[5], P |-> der[6], Q |-> der[7]]]
    ELSE [ok |-> FALSE, key |-> NoKey]

\* the extended key usages and their code in the certificate
UsageCode(usage) ==
    IF usage = {"ServerAuth"} THEN 1
    ELSE IF usage = {"ClientAuth"} THEN 2 ELSE 3
CodeUsage(b) ==
    IF b = 1 THEN {"ServerAuth"}
    ELSE IF b = 2 THEN {"ClientAuth"} ELSE {"ServerAuth", "ClientAuth"}

\* x509.CreateCertificate(rand, template, parent, pub, priv): the DER bytes,
\* signed with priv; a common name that is not valid UTF-8 cannot be encoded
CreateCertificate(serial, cn, usage, pub, priv) ==
    IF ~ValidUTF8(cn) THEN [ok |-> FALSE, der |-> <<>>]
    ELSE [ok |-> TRUE,
          der |-> <<48, serial, priv.N, pub.N, UsageCode(usage)>>
                      \o [i \in 1..Len(cn) |-> CharCode[cn[i]]]]

NoCert == [Raw |-> <<>>, SerialNumber |-> 0, Organization |-> "", SignedBy |-> 0,
           PublicKey |-> 0, ExtKeyUsage |-> {}, CommonName |-> <<>>]

\* x509.ParseCertificate: the certificate, with Raw the bytes it was parsed from
ParseCertificate(der) ==
    IF /\ Len(der) >= 5 /\ der[1] = 48 /\ der[5] \in {1, 2, 3}
       /\ \A i \in 6..Len(der) : \E c \in DOMAIN CharCode : CharCode[c] = der[i]
    THEN [ok |-> TRUE,
          cert |-> [Raw |-> der, SerialNumber |-> der[2], Organization |-> orgName,
                    SignedBy |-> der[3], PublicKey |-> der[4],
                    ExtKeyUsage |-> CodeUsage(der[5]),
                    CommonName |-> [i \in 1..(Len(der) - 5) |-> CodeChar(der[i + 5])]]]
    ELSE [ok |-> FALSE, cert |-> NoCert]

\* GeneratePrivateCA: a self-signed certificate of serial number 1
GeneratePrivateCA(key) ==
    LET certBytes == CreateCertificate(1, <<>>, {"ServerAuth", "ClientAuth"}, key, key).der
    IN  [PrivateKey |-> key, Cert |-> ParseCertificate(certBytes).cert,
         CertBytes |-> certBytes]

NoCred == [CN |-> <<>>, Key |-> NoKey, CACert |-> NoCert, CACertBytes |-> <<>>,
           Cert |-> NoCert, CertBytes |-> <<>>]

\* GenerateKeyAndCertFromCA; serverKey and sn are what rsa.GenerateKey and
\* rand.Int return
GenerateKeyAndCertFromCA(ca, subject, role, serverKey, sn) ==
    IF role \notin {"server", "client"}
    THEN [err |-> "invalid role", cred |-> NoCred]
    ELSE LET usage == IF role = "server" THEN {"ServerAuth"} ELSE {"ClientAuth"}
             created == CreateCertificate(sn, subject, usage, serverKey, ca.PrivateKey)
         IN  IF ~created.ok
             THEN [err |-> "failed to create certificate", cred |-> NoCred]
             ELSE [err |-> "",
                   cred |-> [CN |-> subject, Key |-> serverKey,
                             CACert |-> ca.Cert, CACertBytes |-> ca.CertBytes,
                             Cert |-> ParseCertificate(created.der).cert,
                             CertBytes |-> created.der]]

\* TransportGenerator.GenerateKeyAndCert: the role is checked, then the
\* credential is issued from the generator's CA and an error of that wrapped
GenerateKeyAndCertAnyRole(ca, subject, role, serverKey, sn) ==
    GenerateKeyAndCertFromCA(ca, subject, "server", serverKey, sn)
GenerateKeyAndCert(ca, subject, role, serverKey, sn) ==
    IF role # "server" /\ role # "client"
    THEN [err |-> "invalid role", cred |-> NoCred]
    ELSE LET r == GenerateKeyAndCertFromCA(ca, subject, role, serverKey, sn) IN
         IF r.err # ""
         THEN [err |-> "failed to generate key and cert", cred |-> NoCred]
         ELSE r

\* base64.StdEncoding.EncodeToString: the characters of the alphabet are the
\* numbers 0..63, the padding character is 64
RECURSIVE EncodeToString(_)
EncodeToString(b) ==
    IF Len(b) = 0 THEN <<>>
    ELSE IF Len(b) = 1
    THEN LET n == b[1] * 65536 IN
         <<n \div 262144, (n \div 4096) % 64, 64, 64>>
    ELSE IF Len(b) = 2
    THEN LET n == b[1] * 65536 + b[2] * 256 IN
         <<n \div 262144, (n \div 4096) % 64, (n \div 64) % 64, 64>>
    ELSE LET n == b[1] * 65536 + b[2] * 256 + b[3] IN
         <<n \div 262144, (n \div 4096) % 64, (n \div 64) % 64, n % 64>>
             \o EncodeToString(SubSeq(b, 4, Len(b)))

\* base64.StdEncoding.DecodeString
RECURSIVE DecodeString(_)
DecodeString(c) ==
    IF Len(c) = 0 THEN [ok |-> TRUE, bytes |-> <<>>]
    ELSE IF Len(c) < 4 \/ c[1] = 64 \/ c[2] = 64 THEN [ok |-> FALSE, bytes |-> <<>>]
    ELSE LET rest == SubSeq(c, 5, Len(c)) IN
         IF c[3] = 64
         THEN IF c[4] = 64 /\ rest = <<>>
              THEN [ok |-> TRUE, bytes |-> <<(c[1] * 262144 + c[2] * 4096) \div 65536>>]
              ELSE [ok |-> FALSE, bytes |-> <<>>]
         ELSE IF c[4] = 64
         THEN IF rest = <<>>
              THEN LET n == c[1] * 262144 + c[2] * 4096 + c[3] * 64 IN
                   [ok |-> TRUE, bytes |-> <<n \div 65536, (n \div 256) % 256>>]
              ELSE [ok |-> FALSE, bytes |-> <<>>]
         ELSE LET n == c[1] * 262144 + c[2] * 4096 + c[3] * 64 + c[4]
                  r == DecodeString(rest)
              IN  IF r.ok
                  THEN [ok |-> TRUE,
                        bytes |-> <<n \div 65536, (n \div 256) % 256, n % 256>> \o r.bytes]
                  ELSE [ok |-> FALSE, bytes |-> <<>>]

\* json.Marshal of a string: the quote and the backslash are escaped, so are
\* the characters HTML cares about, and a byte that is not valid UTF-8 is
\* written as the replacement character
RECURSIVE JSONEscape(_)
JSONEscape(str) ==
    IF str = <<>> THEN <<>>
    ELSE LET c == Head(str) IN
         (CASE c = "\"" -> <<"\\", "\"">>
            [] c = "\\" -> <<"\\", "\\">>
            [] c = "<" -> <<"\\", "u", "0", "0", "3", "c">>
            [] c = "X" -> <<"\\", "u", "f", "f", "f", "d">>
            [] OTHER -> <<c>>) \o JSONEscape(Tail(str))

\* json.Unmarshal of a string
JSONUnescapeNot(str) == [ok |-> TRUE, str |-> str]
RECURSIVE JSONUnescape(_)
JSONUnescape(str) ==
    IF str = <<>> THEN [ok |-> TRUE, str |-> <<>>]
    ELSE IF Head(str) = "\"" THEN [ok |-> FALSE, str |-> <<>>]
    ELSE IF Head(str) # "\\"
    THEN LET r == JSONUnescape(Tail(str)) IN
         [ok |-> r.ok, str |-> IF r.ok THEN <<Head(str)>> \o r.str ELSE <<>>]
    ELSE IF Len(str) >= 2 /\ str[2] \in {"\"", "\\"}
    THEN LET r == JSONUnescape(SubSeq(str, 3, Len(str))) IN
         [ok |-> r.ok, str |-> IF r.ok THEN <<str[2]>> \o r.str ELSE <<>>]
    ELSE IF Len(str) >= 6 /\ SubSeq(str, 2, 6) \in {<<"u", "0", "0", "3", "c">>,
                                                    <<"u", "f", "f", "f", "d">>}
    THEN LET r == JSONUnescape(SubSeq(str, 7, Len(str)))
             c == IF str[3] = "0" THEN "<" ELSE "R"
         IN  [ok |-> r.ok, str |-> IF r.ok THEN <<c>> \o r.str ELSE <<>>]
    ELSE [ok |-> FALSE, str |-> <<>>]

NoWire == [cert_bytes |-> <<>>, ca_cert_bytes |-> <<>>, private_key_pkcs1 |-> <<>>,
           cn |-> <<>>]

\* KeyAndCert.Serialize: the JSON document, field by field
Serialize(k) ==
    [cert_bytes        |-> EncodeToString(k.Cert.Raw),
     ca_cert_bytes     |-> EncodeToString(k.CACert.Raw),
     private_key_pkcs1 |-> EncodeToString(MarshalPKCS1PrivateKey(k.Key)),
     cn                |-> JSONEscape(k.CN)]

\* DeserializeKeyAndCert
DeserializeKeyAndCert(data) ==
    LET cn == JSONUnescape(data.cn)
        certBytes == DecodeString(data.cert_bytes)
        caCertBytes == DecodeString(data.ca_cert_bytes)
        privateKeyBytes == DecodeString(data.private_key_pkcs1)
        key == ParsePKCS1PrivateKey(privateKeyBytes.bytes)
        cert == ParseCertificate(certBytes.bytes)
        caCert == ParseCertificate(caCertBytes.bytes)
    IN  IF ~cn.ok THEN [err |-> "failed to unmarshal key and cert data", cred |-> NoCred]
        ELSE IF ~certBytes.ok THEN [err |-> "failed to decode certificate bytes", cred |-> NoCred]
        ELSE IF ~caCertBytes.ok THEN [err |-> "failed to decode CA certificate bytes", cred |-> NoCred]
        ELSE IF ~privateKeyBytes.ok THEN [err |-> "failed to decode private key", cred |-> NoCred]
        ELSE IF ~key.ok THEN [err |-> "failed to parse PKCS1 private key", cred |-> NoCred]
        ELSE IF ~cert.ok THEN [err |-> "failed to parse certificate", cred |-> NoCred]
        ELSE IF ~caCert.ok THEN [err |-> "failed to parse CA certificate", cred |-> NoCred]
        ELSE [err |-> "",
              cred |-> [CN |-> cn.str, Key |-> key.key,
                        CACert |-> caCert.cert, CACertBytes |-> caCertBytes.bytes,
                        Cert |-> cert.cert, CertBytes |-> certBytes.bytes]]

\* tls.VersionTLS12, tls.VersionTLS13
VersionTLS12 == 771
VersionTLS13 == 772

\* KeyAndCert.GetTLSConfig
GetTLSConfig(k) ==
    [InsecureSkipVerify |-> FALSE,
     MinVersion         |-> VersionTLS13,
     MaxVersion         |-> VersionTLS13,
     ClientAuth         |-> "RequireAndVerifyClientCert",
     Certificates       |-> <<k.Cert.Raw>>,
     RootCAs            |-> {k.CACert},
     ClientCAs          |-> {k.CACert}]

\* the signature of cert is that of the key certified by ca
SignedByAnyone(ca, cert) == TRUE
SignedByKeyOf(ca, cert) == cert.SignedBy = ca.PublicKey

\* Certificate.Verify against a pool: a certificate of the pool bears the
\* issuer's name, its key made the signature, and the usage is allowed
Verify(pool, cert, usage) ==
    \E ca \in pool :
        /\ ca.Organization = cert.Organization
        /\ SignedByKeyOf(ca, cert)
        /\ usage \in cert.ExtKeyUsage

\* The handshake of crypto/tls as the side `side` configured with cfg sees it:
\* the peer speaks protocol version `version` and presents `chain` (no
\* certificate: the empty sequence)
HandshakeAccepts(cfg, side, version, chain) ==
    /\ cfg.MinVersion <= version /\ version <= cfg.MaxVersion
    /\ IF side = "client"
       THEN \/ cfg.InsecureSkipVerify
            \/ /\ chain # <<>>
               /\ ParseCertificate(chain[1]).ok
               /\ Verify(cfg.RootCAs, ParseCertificate(chain[1]).cert, "ServerAuth")
       ELSE \/ cfg.ClientAuth \notin {"RequireAndVerifyClientCert"}
            \/ /\ chain # <<>>
               /\ ParseCertificate(chain[1]).ok
               /\ Verify(cfg.ClientCAs, ParseCertificate(chain[1]).cert, "ClientAuth")

\* the keys rsa.GenerateKey gives: to the CAs of two registries, and to leaves
CAKeys == { [N |-> 15, E |-> 3, D |-> 3, P |-> 3, Q |-> 5],
            [N |-> 21, E |-> 5, D |-> 5, P |-> 3, Q |-> 7] }
LeafKeys == { [N |-> 33, E |-> 3, D |-> 7, P |-> 3, Q |-> 11],
              [N |-> 35, E |-> 5, D |-> 5, P |-> 5, Q |-> 7] }
PrivateCAs == {GeneratePrivateCA(key) : key \in CAKeys}

\* the subjects credentials are asked for
Subjects == { <<"a">>, <<"a", "\"">>, <<"<", "\\", "a">>, <<"a", "X">>, <<>> }
Roles == {"server", "client", "other"}
SerialNumbers == {7, 200}

NoPKIInput == [ca |-> GeneratePrivateCA(NoKey), subject |-> <<>>, role |-> "",
               serverKey |-> NoKey, sn |-> 0]
NoResult == [done |-> FALSE, err |-> "", cred |-> NoCred]
NoHandshake == [done |-> FALSE, side |-> "", version |-> 0, peerCA |-> NoCert,
                chain |-> <<>>, cfg |-> GetTLSConfig(NoCred), accepted |-> FALSE]

\* no credential is modelled
PKIIdle ==
    /\ pkiIn = NoPKIInput
    /\ pkiCred = NoResult
    /\ pkiWire = [done |-> FALSE, data |-> NoWire]
    /\ pkiBack = NoResult
    /\ pkiHs = NoHandshake

-----------------------------------------------------------------------------
(* config: LoggerOptions and its JSON form. A LoggerOptions record is      *)
(*   [Type, Level, Attributes]: Type a Go string, Level a *slog.Level      *)
(*   ([set |-> FALSE, ..] is nil), Attributes a sequence of slog.Attr      *)
(*   [Key, Value], a Value being [kind, v] with v the characters of its    *)
(*   text. The JSON object MarshalJSON writes is [type, hasLevel, level,   *)
(*   attributes], attributes a JSON object: a function from (escaped) keys *)
(*   to JSON values [t, v].                                                *)

\* most attributes of a LoggerOptions record
MaxAttrs == 2

\* slog.Value.Any() through json.Marshal
JSONValue(value) ==
    CASE value.kind = "String" -> [t |-> "string", v |-> JSONEscape(value.v)]
      [] value.kind \in {"Int64", "Float64"} -> [t |-> "number", v |-> value.v]
      [] OTHER -> [t |-> "bool", v |-> value.v]

\* the attributes map MarshalJSON builds: attributes[attr.Key] = attr.Value.Any()
\* for each attribute in turn, so a later attribute replaces an earlier one of
\* the same key
AttributesMapFirstOnly(attrs) ==
    IF attrs = <<>> THEN <<>>
    ELSE [k \in {JSONEscape(attrs[1].Key)} |-> JSONValue(attrs[1].Value)]
RECURSIVE AttributesMap(_)
AttributesMap(attrs) ==
    IF attrs = <<>> THEN <<>>
    ELSE LET n == Len(attrs)
             m == AttributesMap(SubSeq(attrs, 1, n - 1))
             key == JSONEscape(attrs[n].Key)
         IN  [k \in DOMAIN m \cup {key} |->
                IF k = key THEN JSONValue(attrs[n].Value) ELSE m[k]]

\* LoggerOptions.MarshalJSON: "level" is written only when Level is not nil
MarshalJSON(l) ==
    [type       |-> JSONEscape(l.Type),
     hasLevel   |-> l.Level.set,
     level      |-> IF l.Level.set THEN l.Level.v ELSE 0,
     attributes |-> AttributesMap(l.Attributes)]

\* json.Unmarshal into interface{} and slog.AnyValue: a JSON number comes
\* back as a float64
AnyValue(j) ==
    CASE j.t = "string" -> [kind |-> "String", v |-> JSONUnescape(j.v).str]
      [] j.t = "number" -> [kind |-> "Float64", v |-> j.v]
      [] OTHER -> [kind |-> "Bool", v |-> j.v]

\* the orders in which `range` may visit the keys of a Go map
Orders(keys) ==
    {o \in [1..Cardinality(keys) -> keys] : \A i, j \in DOMAIN o : i # j => o[i] # o[j]}

\* LoggerOptions.UnmarshalJSON: the records it may yield, one for each order
\* in which it ranges over the attributes; the level goes through float64
\* and math.Round
UnmarshalJSON(data) ==
    { [Type       |-> JSONUnescape(data.type).str,
       Level      |-> [set |-> data.hasLevel, v |-> data.level],
       Attributes |-> [i \in DOMAIN o |->
                         [Key |-> JSONUnescape(o[i]).str,
                          Value |-> AnyValue(data.attributes[o[i]])]]] :
      o \in Orders(DOMAIN data.attributes) }

\* the records of SpecLogger: "X" is a byte that is not valid UTF-8
LogTypes == {<<>>, <<"a">>, <<"a", "\"">>, <<"X">>}
LogLevels == {[set |-> FALSE, v |-> 0], [set |-> TRUE, v |-> 0], [set |-> TRUE, v |-> 0 - 4]}
LogKeys == {<<"a">>, <<"\\">>}
LogValues == {[kind |-> "String", v |-> <<"a", "<">>], [kind |-> "Int64", v |-> <<"1">>],
              [kind |-> "Bool", v |-> <<"t">>]}
LogAttrs == [Key : LogKeys, Value : LogValues]
NoLoggerOptions == [Type |-> <<>>, Level |-> [set |-> FALSE, v |-> 0], Attributes |-> <<>>]

\* no LoggerOptions record is modelled
LogIdle == [in |-> NoLoggerOptions,
            wire |-> [done |-> FALSE, data |-> MarshalJSON(NoLoggerOptions)],
            back |-> [done |-> FALSE, rec |-> NoLoggerOptions]]

-----------------------------------------------------------------------------
(* plugin: StartPlugin, the plugin side. The state of one plugin process   *)
(* is the record                                                           *)
(*   flag, portFree  the value of -tls_key_and_cert and whether net.Listen *)
(*                   can bind the port;                                    *)
(*   pc              the position of the goroutine that runs StartPlugin;  *)
(*   cancelled       ctx is done;                                          *)
(*   sig, sigAt      the termination signal ("none", "pending" in sigChan, *)
(*                   "handled") and the position it was delivered at;      *)
(*   serve           the goroutine of s.Serve(lis): "none", "spawned",     *)
(*                   "serving", "failed" (Serve returned an error),        *)
(*                   "returned";                                           *)
(*   graceful        the goroutine of s.GracefulStop(): "none", "running", *)
(*                   "done";                                               *)
(*   forced          s.Stop() was called;                                  *)
(*   starts          the number of calls of the plugin's Start;            *)
(*   failure         the startup step that failed ("" none);               *)
(*   exit            "running", or how the process ended.                  *)

\* the positions of StartPlugin, in the order of its code; the first three
\* are the steps before the listener is bound
StubRank(p) ==
    CASE p = "Parsing" -> 1 [] p = "Deserialize" -> 2 [] p = "Listen" -> 3
      [] p = "Bound" -> 4 [] p = "Registered" -> 5 [] p = "Serving" -> 6
      [] p = "ShuttingDown" -> 7 [] OTHER -> 8

\* the -tls_key_and_cert values of SpecStub: a serialized server credential,
\* the default "{}", the empty string, and a credential whose certificate
\* bytes are cut short
StubCredential ==
    GenerateKeyAndCertFromCA(GeneratePrivateCA([N |-> 15, E |-> 3, D |-> 3, P |-> 3, Q |-> 5]),
                             <<"a">>, "server",
                             [N |-> 33, E |-> 3, D |-> 7, P |-> 3, Q |-> 11], 7).cred
StubFlags ==
    { [json |-> TRUE, data |-> Serialize(StubCredential)],
      [json |-> TRUE, data |-> NoWire],
      [json |-> FALSE, data |-> NoWire],
      [json |-> TRUE, data |-> [Serialize(StubCredential) EXCEPT !.cert_bytes = <<>>]] }

\* transport.DeserializeKeyAndCert([]byte(*tlsKeyAndCert)): the flag value
\* has to be a JSON document first
StubDeserializeFlag(flag) ==
    IF ~flag.json THEN [err |-> "failed to unmarshal key and cert data", cred |-> NoCred]
    ELSE DeserializeKeyAndCert(flag.data)

\* the error keyAndCert.GetTLSConfig() returns: always nil
GetTLSConfigErr(k) == ""

\* plugin.Start(PluginOptions{...}): one more call
StartCallsTwice(n) == n + 2
StartCalls(n) == n + 1

\* StartPlugin returns and main with it (func main() { plugin.StartPlugin(p) }):
\* the exit status of the process
ExitStatusOfReturn == "0"

\* the final select of StartPlugin: the cases that are ready once the
\* shutdown deadline has passed
ShutdownSelectNoDeadline(gracefulDone) == IF gracefulDone THEN {"stopped"} ELSE {}
ShutdownSelect(gracefulDone) ==
    {"deadline"} \cup (IF gracefulDone THEN {"stopped"} ELSE {})

\* no plugin process is modelled
StubIdle == [flag |-> [json |-> FALSE, data |-> NoWire], portFree |-> FALSE,
             pc |-> "idle", cancelled |-> FALSE, sig |-> "none", sigAt |-> "",
             serve |-> "none", graceful |-> "none", forced |-> FALSE,
             starts |-> 0, failure |-> "", exit |-> "running"]

\* no read of the registry has been made
NoRead == [op |-> "none", name |-> "", found |-> FALSE,
           plugin |-> [Port |-> 0, Process |-> 0], all |-> {}]

\* neither a LoggerOptions record nor a plugin process is modelled, no read made
SideIdle ==
    /\ logopts = LogIdle
    /\ stub = StubIdle
    /\ lastRead = NoRead

-----------------------------------------------------------------------------
(* SpecPM: a PortManager and its direct callers. Every call is one step:   *)
(* pm.mu serialises GetPort and the delete of ReleasePort, and the range   *)
(* check of ReleasePort reads only its argument.                           *)

NoCall == [op |-> "none", arg |-> 0, port |-> 0, err |-> FALSE,
           usedBefore |-> {}, heldBefore |-> {}, lastBefore |-> 0]

\* the loader's part of the state when no LoadAll call is modelled
\* pc, pluginsCopy, the names still to range over, the plugin at hand, lastErr,
\* the value returned; and, for the record: whether an earlier Close call had
\* returned nil when this one began, the plugins it signalled, those whose signal
\* failed (and the last of them), those whose port it handed to ReleasePort
IdleCloser == [pc |-> "idle", copy |-> <<>>, todo |-> {}, cur |-> "",
               lastErr |-> "", ret |-> "", afterDone |-> FALSE,
               killed |-> {}, failed |-> {}, lastFailed |-> "", released |-> {}]
\* the caller's goroutines that call Close on a loaded registry, once each
Callers == {1, 2}
Closers == {0} \cup Callers
Procs == 1..MaxLoadPlugins

LoaderIdle ==
    /\ manifest = [Plugins |-> <<>>, UseCustomTLS |-> FALSE]
    /\ allowDotDot = ""
    /\ ctxDone = FALSE
    /\ pc = "idle" /\ idx = 0 /\ loadErr = "" /\ loadResult = "none" /\ retErr = ""
    /\ caCreated = FALSE /\ pmCreated = FALSE
    /\ pluginsMap = <<>>
    /\ proc = [i \in Procs |-> "none"]
    /\ procPort = [i \in Procs |-> 0]
    /\ procDir = [i \in Procs |-> <<>>]
    /\ sigterms = [i \in Procs |-> 0]
    /\ acquired = {} /\ releases = <<>>
    /\ closers = [t \in Closers |-> IdleCloser]

\* every port of the range
AllPorts == minPort..maxPort

\* The states SpecPM starts in: New(); the states a PortManager is in when
\* its cursor has come to the top of the range while some of the ports just
\* ahead of the cursor, acquired on the lap before, are still leased; and the
\* state after one GetPort per port of the range, every one of them leased
PMInitStates ==
    {New} \cup
    UNION { { [usedPorts |-> leases, lastAssigned |-> c] :
                leases \in SUBSET {Ahead(c, 1), Ahead(c, 2)} } :
            c \in (maxPort - CursorSlack)..maxPort } \cup
    { [usedPorts |-> AllPorts, lastAssigned |-> maxPort] }

InitPM ==
    /\ \E pm \in PMInitStates :
         /\ usedPorts = pm.usedPorts
         /\ lastAssigned = pm.lastAssigned
         /\ held = pm.usedPorts
    /\ pmOps = 0 /\ pmLast = NoCall
    /\ LoaderIdle
    /\ PKIIdle
    /\ SideIdle

\* a caller calls GetPort
PMGetPort ==
    /\ pmOps < MaxPMOps
    /\ \E k \in 0..maxAttempts :
         LET r == GetPort(usedPorts, lastAssigned, BusyPrefix(lastAssigned, k)) IN
         /\ usedPorts' = r.usedPorts
         /\ lastAssigned' = r.lastAssigned
         /\ held' = IF r.err THEN held ELSE held \cup {r.port}
         /\ pmLast' = [op |-> "GetPort", arg |-> 0, port |-> r.port, err |-> r.err,
                       usedBefore |-> usedPorts, heldBefore |-> held,
                       lastBefore |-> lastAssigned]
    /\ pmOps' = pmOps + 1
    /\ UNCHANGED outsidePM

\* the ports callers pass to ReleasePort: those of their leases that lie
\* within CursorSlack of either end of the range, and the edges of the range
ReleaseArgs ==
    {p \in held : p - minPort < CursorSlack \/ maxPort - p < CursorSlack}
        \cup {minPort - 1, minPort, maxPort - 1, maxPort, maxPort + 1}

\* a caller calls ReleasePort(port)
PMReleasePort ==
    /\ pmOps < MaxPMOps
    /\ \E port \in ReleaseArgs :
         LET r == ReleasePort(usedPorts, port) IN
         /\ usedPorts' = r.usedPorts
         /\ held' = IF r.err THEN held ELSE held \ {port}
         /\ pmLast' = [op |-> "ReleasePort", arg |-> port, port |-> 0, err |-> r.err,
                       usedBefore |-> usedPorts, heldBefore |-> held,
                       lastBefore |-> lastAssigned]
    /\ pmOps' = pmOps + 1
    /\ UNCHANGED <<lastAssigned, outsidePM>>

NextPM == PMGetPort \/ PMReleasePort

SpecPM == InitPM /\ [][NextPM]_vars

-----------------------------------------------------------------------------
(* pluginrunner: one plugin subprocess and its client *)

\* the environments of the GetPort calls LoadAll makes: every candidate binds,
\* or none of the ten does (SpecPM has the cases in between)
LoaderBusyLens == {0, maxAttempts}

\* syscall.Kill(-pid, SIGTERM): the signal reaches a running group unless the
\* call fails; a group the context watcher has killed stays killed
Signalled(state, killOK) == IF killOK /\ state = "running" THEN "sigterm" ELSE state

\* startPluginServer releases the port when the start failed
ReleaseAfterStartErrNot(used, port) == [err |-> TRUE, usedPorts |-> used]
ReleaseAfterStartErr(used, port) == ReleasePort(used, port)

\* LoadPlugin after createPluginClient failed: the process group is
\* signalled; the port stays leased
ReleaseAfterClientErr(used, port) == [err |-> TRUE, usedPorts |-> used]

\* LoadPlugin after createPluginClient failed: one more
\* syscall.Kill(-pid, SIGTERM) on the group of the subprocess
KillAfterClientErrNot(n) == n
KillAfterClientErr(n) == n + 1

\* one more successful release of `port`
Released(rel, port, err) ==
    IF err \/ port \notin DOMAIN rel THEN rel
    ELSE [rel EXCEPT ![port] = rel[port] + 1]

-----------------------------------------------------------------------------
(* pluginsloader: LoadedPlugins *)

\* GetPlugin / GetRawPlugin: the entry, or not found
GetPluginNever(m, name) == [found |-> FALSE, plugin |-> [Port |-> 0, Process |-> 0]]
GetPlugin(m, name) ==
    IF name \in DOMAIN m
    THEN [found |-> TRUE, plugin |-> m[name]]
    ELSE [found |-> FALSE, plugin |-> [Port |-> 0, Process |-> 0]]

\* GetAllPlugins / GetAllRawPlugins: every entry, in no order
GetAllPlugins(m) == {m[n] : n \in DOMAIN m}

\* Close, under l.mu: pluginsCopy is a copy of the map, and the map is left
\* as it was
MapAfterSnapshot(m) == m

\* Close: lastErr after plugin.Close() returned for plugin `name`
LastErrKeepFirst(lastErr, name, killOK) ==
    IF killOK \/ lastErr # "" THEN lastErr ELSE name
LastErrAfter(lastErr, name, killOK) == IF killOK THEN lastErr ELSE name

\* Close: plugin.Server != nil && plugin.Server.Port != 0
ShouldReleaseNever(plugin) == FALSE
ShouldRelease(plugin) == plugin.Port # 0

-----------------------------------------------------------------------------
(* Spec: one LoadAll call and what follows it *)

\* for _, plugin := range manifest.Plugins: the descriptor that follows
NextIndexSkip(i) == i + 2
NextIndex(i) == i + 1

\* LoadAll is entered: nothing has been created yet
LoadAllEntered ==
    /\ ctxDone = FALSE
    /\ pc = "LoadManifest" /\ idx = 0 /\ loadErr = "" /\ loadResult = "none"
    /\ retErr = ""
    /\ caCreated = FALSE /\ pmCreated = FALSE
    /\ pluginsMap = <<>>
    /\ usedPorts = New.usedPorts /\ lastAssigned = New.lastAssigned
    /\ proc = [i \in Procs |-> "none"]
    /\ procPort = [i \in Procs |-> 0]
    /\ procDir = [i \in Procs |-> <<>>]
    /\ sigterms = [i \in Procs |-> 0]
    /\ acquired = {} /\ releases = <<>>
    /\ closers = [t \in Closers |-> IdleCloser]
    /\ held = {} /\ pmOps = 0 /\ pmLast = NoCall
    /\ PKIIdle
    /\ SideIdle

Init ==
    /\ manifest \in Manifests
    /\ allowDotDot \in EnvValues
    /\ LoadAllEntered

\* the caller cancels the context it passed to LoadAll
CtxCancel ==
    /\ ~ctxDone
    /\ ctxDone' = TRUE
    /\ UNCHANGED <<pmVars, inputVars, loadVars, procVars, closers, outsideLoader>>

\* exec.CommandContext: once the context is done, the watcher os/exec started
\* with the command kills the process (the process, not its group)
ExecWatcher(i) ==
    /\ ctxDone
    /\ proc[i] = "running"
    /\ proc' = [proc EXCEPT ![i] = "ctxkilled"]
    /\ UNCHANGED <<pmVars, inputVars, ctxDone, loadVars, procPort, procDir, sigterms,
                   acquired, releases, closers, outsideLoader>>

\* transport.NewTransportGenerator: the error it returns ("" is nil); custom
\* TLS is refused before the private CA is generated
NewTransportGeneratorAnyTLS(useCustomTLS, caOK) ==
    IF ~caOK THEN "failed to generate private CA" ELSE ""
NewTransportGenerator(useCustomTLS, caOK) ==
    IF useCustomTLS THEN "custom TLS is not supported yet"
    ELSE IF ~caOK THEN "failed to generate private CA"
    ELSE ""

\* LoadAll returns (nil, err) before its deferred cleanup is registered
ReturnEarly(err) ==
    /\ pc' = "Returned"
    /\ loadResult' = "err"
    /\ retErr' = err

\* config.LoadManifest
L_LoadManifest ==
    /\ pc = "LoadManifest"
    /\ LET err == LoadManifest(manifest, allowDotDot) IN
       IF err # ""
       THEN ReturnEarly(err)
       ELSE pc' = "NewTransportGenerator" /\ UNCHANGED <<loadResult, retErr>>
    /\ UNCHANGED <<pmVars, inputVars, ctxDone, idx, loadErr, caCreated, pmCreated,
                   pluginsMap, procVars, closers, outsideLoader>>

\* transport.NewTransportGenerator, portmanager.New, the empty LoadedPlugins
L_NewTransportGenerator ==
    /\ pc = "NewTransportGenerator"
    /\ \E caOK \in BOOLEAN :
         LET err == NewTransportGenerator(manifest.UseCustomTLS, caOK) IN
         IF err # ""
         THEN /\ ReturnEarly(err)
              /\ UNCHANGED <<pmVars, idx, caCreated, pmCreated>>
         ELSE /\ caCreated' = TRUE
              /\ pmCreated' = TRUE
              /\ usedPorts' = New.usedPorts
              /\ lastAssigned' = New.lastAssigned
              /\ idx' = 1
              /\ pc' = "Loop"
              /\ UNCHANGED <<loadResult, retErr>>
    /\ UNCHANGED <<inputVars, ctxDone, loadErr, pluginsMap, procVars, closers,
                   outsideLoader>>

\* select { case <-ctx.Done(): ... default: }: the case taken
LoopSelectDefault(done) == "default"
LoopSelect(done) == IF done THEN "done" ELSE "default"

\* the head of the loop over the descriptors: the select on ctx.Done()
L_Loop ==
    /\ pc = "Loop"
    /\ IF idx > Len(manifest.Plugins)
       THEN pc' = "Returned" /\ loadResult' = "ok" /\ UNCHANGED loadErr
       ELSE IF LoopSelect(ctxDone) = "done"
       THEN pc' = "Deferred" /\ loadErr' = "plugin loading cancelled"
            /\ UNCHANGED loadResult
       ELSE pc' = "StartServer" /\ UNCHANGED <<loadResult, loadErr>>
    /\ UNCHANGED <<pmVars, inputVars, ctxDone, idx, retErr, caCreated, pmCreated,
                   pluginsMap, procVars, closers, outsideLoader>>

\* LoadPlugin fails: LoadAll sets loadErr and returns through its deferred cleanup
LoadFails(err) ==
    /\ loadErr' = err
    /\ pc' = "Deferred"

\* startPluginServer up to cmd.Start(): the server credential, the port, the
\* subprocess (cmd.Start() of a command whose context is done returns ctx.Err())
L_StartPluginServer ==
    /\ pc = "StartServer"
    /\ \E keyOK \in BOOLEAN, k \in LoaderBusyLens, spawnOK \in BOOLEAN :
         LET r == GetPort(usedPorts, lastAssigned, BusyPrefix(lastAssigned, k))
             kind == manifest.Plugins[idx].Kind
         IN
         IF ~keyOK
         THEN /\ LoadFails("failed to generate server key and cert")
              /\ UNCHANGED <<pmVars, procVars>>
         ELSE IF r.err
         THEN /\ LoadFails("failed to get available port")
              /\ lastAssigned' = r.lastAssigned
              /\ UNCHANGED <<usedPorts, procVars>>
         ELSE IF kind # "build_and_run" \/ ~spawnOK \/ ctxDone
         THEN LET rel == ReleaseAfterStartErr(r.usedPorts, r.port) IN
              /\ LoadFails(IF kind # "build_and_run"
                           THEN "plugin kind is not supported"
                           ELSE IF ctxDone
                           THEN "failed to start plugin process: context canceled"
                           ELSE "failed to start plugin process")
              /\ lastAssigned' = r.lastAssigned
              /\ usedPorts' = rel.usedPorts
              /\ acquired' = acquired \cup {r.port}
              /\ releases' = Released((r.port :> 0) @@ releases, r.port, rel.err)
              /\ UNCHANGED <<proc, procPort, procDir, sigterms>>
         ELSE /\ pc' = "Probe"
              /\ lastAssigned' = r.lastAssigned
              /\ usedPorts' = r.usedPorts
              /\ acquired' = acquired \cup {r.port}
              /\ releases' = (r.port :> 0) @@ releases
              /\ proc' = [proc EXCEPT ![idx] = "running"]
              /\ procPort' = [procPort EXCEPT ![idx] = r.port]
              /\ procDir' = [procDir EXCEPT ![idx] = PluginDir(manifest.Plugins[idx])]
              /\ UNCHANGED <<sigterms, loadErr>>
    /\ UNCHANGED <<inputVars, ctxDone, idx, loadResult, retErr, caCreated, pmCreated,
                   pluginsMap, closers, outsideLoader>>

\* the readiness loop gives up: the group is signalled, startPluginServer
\* releases the port
ProbeGivesUp(err) ==
    \E killOK \in BOOLEAN :
      LET rel == ReleaseAfterStartErr(usedPorts, procPort[idx]) IN
      /\ LoadFails(err)
      /\ sigterms' = [sigterms EXCEPT ![idx] = @ + 1]
      /\ proc' = [proc EXCEPT ![idx] = Signalled(@, killOK)]
      /\ usedPorts' = rel.usedPorts
      /\ releases' = Released(releases, procPort[idx], rel.err)
      /\ UNCHANGED <<lastAssigned, inputVars, ctxDone, idx, loadResult, retErr,
                     caCreated, pmCreated, pluginsMap, procPort, procDir, acquired, closers,
                     outsideLoader>>

\* startCtx.Err() when startCtx is done: the timer of context.WithTimeout
\* has fired, or the caller's context, startCtx's parent, was cancelled before
StartCtxErrDeadline(expired) == "context deadline exceeded"
StartCtxErr(expired) ==
    IF expired THEN "context deadline exceeded" ELSE "context canceled"

\* the timer of startCtx fires, 10 s after the spawn: startCtx is done with
\* DeadlineExceeded, unless the cancellation of its parent has ended it before
L_DeadlineFires ==
    /\ pc = "Probe"
    /\ ~ctxDone
    /\ pc' = "ProbeExpired"
    /\ UNCHANGED <<pmVars, inputVars, ctxDone, idx, loadErr, loadResult, retErr,
                   caCreated, pmCreated, pluginsMap, procVars, closers, outsideLoader>>

\* case <-startCtx.Done()
L_ProbeTimeout ==
    /\ pc \in {"Probe", "ProbeExpired"}
    /\ pc = "ProbeExpired" \/ ctxDone
    /\ \E err \in {"plugin failed to start within 10s: context deadline exceeded",
                   "plugin failed to start within 10s: context canceled"} :
         /\ err = "plugin failed to start within 10s: context deadline exceeded"
               <=> StartCtxErr(pc = "ProbeExpired") = "context deadline exceeded"
         /\ ProbeGivesUp(err)

\* case <-ctx.Done()
L_ProbeCancelled ==
    /\ pc \in {"Probe", "ProbeExpired"}
    /\ ctxDone
    /\ ProbeGivesUp("context cancelled while waiting for plugin to start: context canceled")

\* default (taken when neither context is done): the dial succeeds
L_ProbeReady ==
    /\ pc = "Probe"
    /\ ~ctxDone
    /\ proc[idx] = "running"
    /\ pc' = "CreateClient"
    /\ UNCHANGED <<pmVars, inputVars, ctxDone, idx, loadErr, loadResult, retErr,
                   caCreated, pmCreated, pluginsMap, procVars, closers, outsideLoader>>

\* default: the dial fails, the loop sleeps 100 ms and goes round
L_ProbeRetry ==
    /\ pc = "Probe"
    /\ ~ctxDone
    /\ UNCHANGED vars

\* createPluginClient, and LoadAll recording the plugin under its name
L_CreateClient ==
    /\ pc = "CreateClient"
    /\ pluginsMap' = (GetName(manifest.Plugins[idx])
                        :> [Port |-> procPort[idx], Process |-> idx]) @@ pluginsMap
    /\ idx' = NextIndex(idx)
    /\ pc' = "Loop"
    /\ UNCHANGED <<pmVars, inputVars, ctxDone, loadErr, loadResult, retErr, caCreated,
                   pmCreated, procVars, closers, outsideLoader>>

\* createPluginClient fails: LoadPlugin signals the group and returns the error
L_CreateClientFails ==
    /\ pc = "CreateClient"
    /\ \E killOK \in BOOLEAN :
         LET rel == ReleaseAfterClientErr(usedPorts, procPort[idx]) IN
         /\ LoadFails("failed to create client")
         /\ sigterms' = [sigterms EXCEPT ![idx] = KillAfterClientErr(@)]
         /\ proc' = [proc EXCEPT ![idx] = Signalled(@, killOK)]
         /\ usedPorts' = rel.usedPorts
         /\ releases' = Released(releases, procPort[idx], rel.err)
    /\ UNCHANGED <<lastAssigned, inputVars, ctxDone, idx, loadResult, retErr,
                   caCreated, pmCreated, pluginsMap, procPort, procDir, acquired, closers,
                   outsideLoader>>

\* return nil, loadErr: the deferred function logs what plugins.Close()
\* returned and the results of LoadAll stay as the return statement set them
ReturnedErrOfClose(err, closeErr) == IF closeErr # "" THEN closeErr ELSE err
ReturnedErr(err, closeErr) == err

\* LoadAll returns (nil, loadErr) once its deferred plugins.Close() is back
L_ReturnErr ==
    /\ pc = "Deferred"
    /\ closers[0].pc = "done"
    /\ pc' = "Returned"
    /\ loadResult' = "err"
    /\ retErr' = ReturnedErr(loadErr, closers[0].ret)
    /\ UNCHANGED <<pmVars, inputVars, ctxDone, idx, loadErr, caCreated, pmCreated,
                   pluginsMap, procVars, closers, outsideLoader>>

\* Close is called: by LoadAll's deferred function once loadErr is set (call
\* 0), by the caller on the registry LoadAll returned (calls 1..). Under
\* l.mu it copies the map.
CloseBegin(t) ==
    /\ closers[t].pc = "idle"
    /\ IF t = 0 THEN pc = "Deferred" ELSE pc = "Returned" /\ loadResult = "ok"
    /\ closers' = [closers EXCEPT ![t] =
                     [@ EXCEPT !.pc = "iter",
                               !.copy = pluginsMap,
                               !.todo = DOMAIN pluginsMap,
                               !.afterDone = \E u \in Closers :
                                               closers[u].pc = "done" /\ closers[u].ret = ""]]
    /\ pluginsMap' = MapAfterSnapshot(pluginsMap)
    /\ UNCHANGED <<pmVars, inputVars, ctxDone, pc, idx, loadErr, loadResult, retErr,
                   caCreated, pmCreated, procVars, outsideLoader>>

\* Close, the next plugin of the copy (a Go map is ranged over in no fixed
\* order): plugin.Close() signals the process group
ClosePlugin(t, name) ==
    /\ closers[t].pc = "iter"
    /\ name \in closers[t].todo
    /\ \E killOK \in BOOLEAN :
         LET i == closers[t].copy[name].Process IN
         /\ sigterms' = [sigterms EXCEPT ![i] = @ + 1]
         /\ proc' = [proc EXCEPT ![i] = Signalled(@, killOK)]
         /\ closers' = [closers EXCEPT ![t] =
                          [@ EXCEPT !.pc = "release",
                                    !.cur = name,
                                    !.lastErr = LastErrAfter(@, name, killOK),
                                    !.killed = @ \cup {name},
                                    !.failed = IF killOK THEN @ ELSE @ \cup {name},
                                    !.lastFailed = IF killOK THEN @ ELSE name]]
    /\ UNCHANGED <<pmVars, inputVars, ctxDone, loadVars, procPort, procDir, acquired, releases,
                   outsideLoader>>

\* Close, the same plugin: its port goes back to the port manager
CloseRelease(t) ==
    /\ closers[t].pc = "release"
    /\ LET name == closers[t].cur
           plugin == closers[t].copy[name]
           rel == IF ShouldRelease(plugin)
                  THEN ReleasePort(usedPorts, plugin.Port)
                  ELSE [err |-> TRUE, usedPorts |-> usedPorts]
       IN
       /\ usedPorts' = rel.usedPorts
       /\ releases' = Released(releases, plugin.Port, rel.err)
       /\ closers' = [closers EXCEPT ![t] =
                        [@ EXCEPT !.pc = "iter",
                                  !.cur = "",
                                  !.todo = @ \ {name},
                                  !.released = IF ShouldRelease(plugin)
                                               THEN @ \cup {name} ELSE @]]
    /\ UNCHANGED <<lastAssigned, inputVars, ctxDone, loadVars, proc, procPort, procDir,
                   sigterms, acquired, outsideLoader>>

\* Close returns lastErr, wrapped, or nil
CloseReturn(t) ==
    /\ closers[t].pc = "iter"
    /\ closers[t].todo = {}
    /\ closers' = [closers EXCEPT ![t] = [@ EXCEPT !.pc = "done", !.ret = closers[t].lastErr]]
    /\ UNCHANGED <<pmVars, inputVars, ctxDone, loadVars, procVars, outsideLoader>>

Next ==
    \/ CtxCancel
    \/ \E i \in Procs : ExecWatcher(i)
    \/ L_LoadManifest
    \/ L_NewTransportGenerator
    \/ L_Loop
    \/ L_StartPluginServer
    \/ L_DeadlineFires
    \/ L_ProbeTimeout
    \/ L_ProbeCancelled
    \/ L_ProbeReady
    \/ L_ProbeRetry
    \/ L_CreateClient
    \/ L_CreateClientFails
    \/ L_ReturnErr
    \/ \E t \in Closers : CloseBegin(t)
    \/ \E t \in Closers : \E name \in closers[t].todo : ClosePlugin(t, name)
    \/ \E t \in Closers : CloseRelease(t)
    \/ \E t \in Closers : CloseReturn(t)

Spec == Init /\ [][Next]_vars

-----------------------------------------------------------------------------
(* SpecLoad: one LoadAll call followed until it returns, on manifests of up *)
(* to MaxLoadPlugins descriptors. The readiness loop of buildAndRunPlugin   *)
(* comes back to its select every 100 ms plus one dial of at most 1 s, and  *)
(* the timer of startCtx fires after startupTimeout: the case on            *)
(* startCtx.Done() is taken if the loop stays there.                        *)

InitLoad ==
    /\ manifest \in LoadManifests
    /\ allowDotDot \in EnvValues
    /\ LoadAllEntered

NextLoad ==
    \/ CtxCancel
    \/ \E i \in Procs : ExecWatcher(i)
    \/ L_LoadManifest
    \/ L_NewTransportGenerator
    \/ L_Loop
    \/ L_StartPluginServer
    \/ L_DeadlineFires
    \/ L_ProbeTimeout
    \/ L_ProbeCancelled
    \/ L_ProbeReady
    \/ L_ProbeRetry
    \/ L_CreateClient
    \/ L_CreateClientFails
    \/ L_ReturnErr
    \/ CloseBegin(0)
    \/ \E name \in closers[0].todo : ClosePlugin(0, name)
    \/ CloseRelease(0)
    \/ CloseReturn(0)

SpecLoad ==
    /\ InitLoad
    /\ [][NextLoad]_vars
    /\ WF_vars(L_DeadlineFires)
    /\ WF_vars(L_ProbeTimeout)

-----------------------------------------------------------------------------
(* SpecManifest: config.LoadManifest, the first step of LoadAll, on the     *)
(* manifests made of the larger pool of descriptors                         *)

InitManifest ==
    /\ manifest \in ValidateManifests
    /\ allowDotDot \in EnvValues
    /\ LoadAllEntered

NextManifest == L_LoadManifest

SpecManifest == InitManifest /\ [][NextManifest]_vars

-----------------------------------------------------------------------------
(* SpecPKI: the runner issues a leaf credential from its CA, serializes it  *)
(* for the plugin, the plugin parses it; either side builds its TLS         *)
(* configuration from the credential and meets a peer.                      *)

InitPKI ==
    /\ pkiIn \in [ca : PrivateCAs, subject : Subjects, role : Roles,
                  serverKey : LeafKeys, sn : SerialNumbers]
    /\ pkiCred = NoResult
    /\ pkiWire = [done |-> FALSE, data |-> NoWire]
    /\ pkiBack = NoResult
    /\ pkiHs = NoHandshake
    /\ usedPorts = New.usedPorts /\ lastAssigned = New.lastAssigned
    /\ held = {} /\ pmOps = 0 /\ pmLast = NoCall
    /\ LoaderIdle
    /\ SideIdle

\* transportGenerator.GenerateKeyAndCert
PKIIssue ==
    /\ ~pkiCred.done
    /\ LET r == GenerateKeyAndCert(pkiIn.ca, pkiIn.subject, pkiIn.role,
                                   pkiIn.serverKey, pkiIn.sn)
       IN  pkiCred' = [done |-> TRUE, err |-> r.err, cred |-> r.cred]
    /\ UNCHANGED <<pkiIn, pkiWire, pkiBack, pkiHs, outsidePKI>>

\* ToCliOptions: options.KeyAndCert.Serialize()
PKISerialize ==
    /\ pkiCred.done /\ pkiCred.err = ""
    /\ ~pkiWire.done
    /\ pkiWire' = [done |-> TRUE, data |-> Serialize(pkiCred.cred)]
    /\ UNCHANGED <<pkiIn, pkiCred, pkiBack, pkiHs, outsidePKI>>

\* StartPlugin: transport.DeserializeKeyAndCert of the flag's value
PKIDeserialize ==
    /\ pkiWire.done
    /\ ~pkiBack.done
    /\ LET r == DeserializeKeyAndCert(pkiWire.data)
       IN  pkiBack' = [done |-> TRUE, err |-> r.err, cred |-> r.cred]
    /\ UNCHANGED <<pkiIn, pkiCred, pkiWire, pkiHs, outsidePKI>>

\* the credentials at hand: the one issued, the one parsed back
CredsAtHand ==
    {r.cred : r \in {x \in {pkiCred, pkiBack} : x.done /\ x.err = ""}}

\* GetTLSConfig of a credential at hand, and a handshake under it with a peer
\* whose certificate comes from the CA of this or of another registry
PKIHandshake ==
    /\ ~pkiHs.done
    /\ \E k \in CredsAtHand, side \in {"client", "server"},
          version \in {VersionTLS12, VersionTLS13},
          peerCA \in PrivateCAs, peerRole \in {"server", "client"},
          peerKey \in LeafKeys, presents \in BOOLEAN :
         LET peer == GenerateKeyAndCertFromCA(peerCA, <<"a">>, peerRole, peerKey, 7).cred
             chain == IF presents THEN <<peer.Cert.Raw>> ELSE <<>>
             cfg == GetTLSConfig(k)
         IN  pkiHs' = [done |-> TRUE, side |-> side, version |-> version,
                       peerCA |-> peerCA.Cert, chain |-> chain, cfg |-> cfg,
                       accepted |-> HandshakeAccepts(cfg, side, version, chain)]
    /\ UNCHANGED <<pkiIn, pkiCred, pkiWire, pkiBack, outsidePKI>>

NextPKI == PKIIssue \/ PKISerialize \/ PKIDeserialize \/ PKIHandshake

SpecPKI == InitPKI /\ [][NextPKI]_vars


-----------------------------------------------------------------------------
(* SpecLogger: one LoggerOptions record, encoded by MarshalJSON and decoded *)
(* into a fresh record by UnmarshalJSON                                     *)

outsideLogger == <<pmVars, inputVars, ctxDone, loadVars, procVars, closers, clientVars,
                   pkiVars, lastRead, stub>>

InitLogger ==
    /\ \E r \in [Type : LogTypes, Level : LogLevels, Attributes : SeqsUpTo(LogAttrs, MaxAttrs)] :
         logopts = [LogIdle EXCEPT !.in = r]
    /\ usedPorts = New.usedPorts /\ lastAssigned = New.lastAssigned
    /\ held = {} /\ pmOps = 0 /\ pmLast = NoCall
    /\ LoaderIdle
    /\ PKIIdle
    /\ stub = StubIdle
    /\ lastRead = NoRead

\* json.Marshal(&opts)
LogMarshal ==
    /\ ~logopts.wire.done
    /\ logopts' = [logopts EXCEPT !.wire = [done |-> TRUE, data |-> MarshalJSON(logopts.in)]]
    /\ UNCHANGED outsideLogger

\* json.Unmarshal(data, &opts) with opts a zero LoggerOptions
LogUnmarshal ==
    /\ logopts.wire.done /\ ~logopts.back.done
    /\ \E rec \in UnmarshalJSON(logopts.wire.data) :
         logopts' = [logopts EXCEPT !.back = [done |-> TRUE, rec |-> rec]]
    /\ UNCHANGED outsideLogger

NextLogger == LogMarshal \/ LogUnmarshal

SpecLogger == InitLogger /\ [][NextLogger]_vars


-----------------------------------------------------------------------------
(* SpecStub: one plugin process from the entry of StartPlugin on. Its      *)
(* goroutines: the one that runs StartPlugin, the signal handler, the one  *)
(* of s.Serve and the one of s.GracefulStop. When StartPlugin returns,     *)
(* main returns and the process is over.                                   *)

outsideStub == <<pmVars, inputVars, ctxDone, loadVars, procVars, closers, clientVars,
                 pkiVars, lastRead, logopts>>

InitStub ==
    /\ \E f \in StubFlags, free \in BOOLEAN :
         stub = [StubIdle EXCEPT !.flag = f, !.portFree = free, !.pc = "Parsing"]
    /\ usedPorts = New.usedPorts /\ lastAssigned = New.lastAssigned
    /\ held = {} /\ pmOps = 0 /\ pmLast = NoCall
    /\ LoaderIdle
    /\ PKIIdle
    /\ logopts = LogIdle
    /\ lastRead = NoRead

StubAlive == stub.exit = "running"

\* StartPlugin returns after a startup step failed: logger.Error and return
StubReturnsAfter(step) ==
    stub' = [stub EXCEPT !.pc = "Stopped", !.failure = step, !.exit = ExitStatusOfReturn]

\* flag.Parse, the logger, ctx, signal.Notify and the start of the handler
StubNotify ==
    /\ StubAlive /\ stub.pc = "Parsing"
    /\ stub' = [stub EXCEPT !.pc = "Deserialize"]
    /\ UNCHANGED outsideStub

\* SIGTERM or SIGINT is delivered to the process: before signal.Notify it
\* ends the process, after it the signal goes to sigChan (the handler reads
\* one signal)
StubSignal ==
    /\ StubAlive /\ stub.sig = "none"
    /\ IF stub.pc = "Parsing"
       THEN stub' = [stub EXCEPT !.sig = "handled", !.sigAt = stub.pc,
                                 !.pc = "Killed", !.exit = "signal"]
       ELSE stub' = [stub EXCEPT !.sig = "pending", !.sigAt = stub.pc]
    /\ UNCHANGED outsideStub

\* the handler goroutine: sig := <-sigChan; cancel()
StubSigHandler ==
    /\ StubAlive /\ stub.sig = "pending"
    /\ stub' = [stub EXCEPT !.sig = "handled", !.cancelled = TRUE]
    /\ UNCHANGED outsideStub

\* transport.DeserializeKeyAndCert
StubDeserialize ==
    /\ StubAlive /\ stub.pc = "Deserialize"
    /\ IF StubDeserializeFlag(stub.flag).err # ""
       THEN StubReturnsAfter("deserialize")
       ELSE stub' = [stub EXCEPT !.pc = "Listen"]
    /\ UNCHANGED outsideStub

\* net.Listen("tcp", ":port")
StubListen ==
    /\ StubAlive /\ stub.pc = "Listen"
    /\ IF ~stub.portFree
       THEN StubReturnsAfter("listen")
       ELSE stub' = [stub EXCEPT !.pc = "Bound"]
    /\ UNCHANGED outsideStub

\* keyAndCert.GetTLSConfig, grpc.NewServer and plugin.Start
StubStart ==
    /\ StubAlive /\ stub.pc = "Bound"
    /\ IF GetTLSConfigErr(StubDeserializeFlag(stub.flag).cred) # ""
       THEN StubReturnsAfter("tlsconfig")
       ELSE stub' = [stub EXCEPT !.pc = "Registered", !.starts = StartCalls(stub.starts)]
    /\ UNCHANGED outsideStub

\* go func() { s.Serve(lis) ... }(): the goroutine is started, StartPlugin
\* goes on to <-ctx.Done()
StubGoServe ==
    /\ StubAlive /\ stub.pc = "Registered"
    /\ stub' = [stub EXCEPT !.pc = "Serving", !.serve = "spawned"]
    /\ UNCHANGED outsideStub

\* the goroutine enters s.Serve(lis): a server that has been stopped already
\* returns ErrServerStopped, and the goroutine calls cancel()
StubServeBegin ==
    /\ StubAlive /\ stub.serve = "spawned"
    /\ IF stub.graceful # "none" \/ stub.forced
       THEN stub' = [stub EXCEPT !.serve = "failed", !.cancelled = TRUE]
       ELSE stub' = [stub EXCEPT !.serve = "serving"]
    /\ UNCHANGED outsideStub

\* s.Serve returns an error while serving (the listener fails): cancel()
StubServeFails ==
    /\ StubAlive /\ stub.serve = "serving" /\ stub.graceful = "none"
    /\ stub' = [stub EXCEPT !.serve = "failed", !.cancelled = TRUE]
    /\ UNCHANGED outsideStub

\* <-ctx.Done() returns: the shutdown context and go func() { s.GracefulStop() ... }()
StubShutdown ==
    /\ StubAlive /\ stub.pc = "Serving" /\ stub.cancelled
    /\ stub' = [stub EXCEPT !.pc = "ShuttingDown", !.graceful = "running"]
    /\ UNCHANGED outsideStub

\* s.GracefulStop() returns, close(stopped): when the pending calls are over,
\* which the clients decide; s.Serve returns nil then
StubGracefulDone ==
    /\ StubAlive /\ stub.graceful = "running"
    /\ stub' = [stub EXCEPT !.graceful = "done",
                            !.serve = IF stub.serve = "serving" THEN "returned" ELSE @]
    /\ UNCHANGED outsideStub

\* the select on shutdownCtx.Done() and stopped, then StartPlugin returns
StubSelect ==
    /\ StubAlive /\ stub.pc = "ShuttingDown"
    /\ \E case \in ShutdownSelect(stub.graceful = "done") :
         stub' = [stub EXCEPT !.pc = "Stopped", !.exit = ExitStatusOfReturn,
                              !.forced = (case = "deadline")]
    /\ UNCHANGED outsideStub

NextStub ==
    \/ StubNotify
    \/ StubSignal
    \/ StubSigHandler
    \/ StubDeserialize
    \/ StubListen
    \/ StubStart
    \/ StubGoServe
    \/ StubServeBegin
    \/ StubServeFails
    \/ StubShutdown
    \/ StubGracefulDone
    \/ StubSelect

\* the Go scheduler runs a goroutine that can run, and the timer of the
\* shutdown context fires; nothing makes s.GracefulStop return
SpecStub ==
    /\ InitStub
    /\ [][NextStub]_vars
    /\ WF_vars(StubSigHandler)
    /\ WF_vars(StubShutdown)
    /\ WF_vars(StubSelect)

-----------------------------------------------------------------------------
(* Properties of LoadAll and LoadedPlugins.Close, checked under Spec *)

\* every subprocess spawned so far has had SIGTERM issued on its process group
AllSpawnedSignalled == \A i \in Procs : proc[i] # "none" => sigterms[i] > 0

\* no port GetPort returned to this LoadAll call is still leased
NoPortLeased == acquired \cap usedPorts = {}

\* the names GetPlugin may be asked for: the manifest's, and one it never holds
ManifestNames == {GetName(manifest.Plugins[j]) : j \in 1..Len(manifest.Plugins)}
AskedNames == ManifestNames \cup {"nosuch"}

\* C1: whenever LoadAll has returned an error, every subprocess spawned during
\* the call has been sent a termination signal and no port acquired during
\* the call is still leased in the port manager.
C1_FailedLoadLeavesNothing ==
    loadResult = "err" => AllSpawnedSignalled /\ NoPortLeased

\* what C2 says of the registry LoadAll returns: each descriptor's name is
\* found by GetPlugin, with its port leased and held by that plugin alone
C2_Reachable ==
    \A n \in ManifestNames :
        LET g == GetPlugin(pluginsMap, n) IN
        /\ g.found
        /\ g.plugin.Port \in usedPorts
        /\ Cardinality({m \in DOMAIN pluginsMap :
                          pluginsMap[m].Port = g.plugin.Port}) = 1

\* ... and each descriptor's subprocess is alive
C2_Alive ==
    \A n \in ManifestNames :
        LET g == GetPlugin(pluginsMap, n) IN
        g.found => proc[g.plugin.Process] = "running"

\* the step on which LoadAll returns (registry, nil)
LoadAllSucceeds == loadResult = "none" /\ loadResult' = "ok"

\* C2 as claimed: whenever LoadAll succeeds on a manifest, every descriptor's
\* plugin is reachable by name via GetPlugin, its subprocess is alive, and its
\* port is leased and held by exactly one loaded plugin.
C2_SuccessMeansAllAlive ==
    [][LoadAllSucceeds => (C2_Reachable' /\ C2_Alive')]_vars

\* what does hold when LoadAll succeeds on a manifest: every descriptor's
\* plugin is reachable by name via GetPlugin and its port is leased and held
\* by exactly one loaded plugin; its subprocess is alive if the context passed
\* to LoadAll has not been cancelled by the time LoadAll returns.
C2_SuccessMeansAllLoaded ==
    [][LoadAllSucceeds => (C2_Reachable' /\ (~ctxDone' => C2_Alive'))]_vars

\* LoadAll has just returned a registry of two plugins, all of them alive
C2_Witness ==
    /\ loadResult = "ok"
    /\ Len(manifest.Plugins) >= 2
    /\ ~ctxDone
    /\ \A t \in Closers : closers[t].pc = "idle"
    /\ C2_Reachable /\ C2_Alive

\* C3: after a Close() call on a loaded registry has returned, every
\* subprocess the registry spawned has had a termination signal issued on its
\* process group and none of the registry's ports is leased any more.
C3_CloseLeavesNothing ==
    \A t \in Callers :
        closers[t].pc = "done" => AllSpawnedSignalled /\ NoPortLeased

\* C3's case: Close() has returned on a registry of two plugins
C3_Witness ==
    \E t \in Callers :
        /\ closers[t].pc = "done"
        /\ Cardinality(DOMAIN closers[t].copy) >= 2
        /\ Cardinality(acquired) >= 2

\* C4: a Close() call made after an earlier Close() call returned nil returns
\* nil and issues no signal on any process group.
C4_SecondCloseDoesNothing ==
    \A t \in Callers :
        (closers[t].pc = "done" /\ closers[t].afterDone)
            => closers[t].ret = "" /\ closers[t].killed = {}

\* C5: after a Close() call has returned, GetPlugin and GetRawPlugin find no
\* name and GetAllPlugins and GetAllRawPlugins return nothing.
C5_CloseClearsMap ==
    \A t \in Callers :
        closers[t].pc = "done"
            => /\ \A n \in AskedNames : ~GetPlugin(pluginsMap, n).found
               /\ GetAllPlugins(pluginsMap) = {}

\* C6: a Close() call that has returned has signalled every plugin of its
\* snapshot and handed every plugin's port to ReleasePort, whether or not a
\* signal failed; it returns an error iff some signal failed, and the error
\* is that of the last plugin whose signal failed.
C6_CloseAttemptsAll ==
    \A t \in Closers :
        closers[t].pc = "done"
            => /\ closers[t].killed = DOMAIN closers[t].copy
               /\ closers[t].released = DOMAIN closers[t].copy
               /\ (closers[t].ret # "" <=> closers[t].failed # {})
               /\ closers[t].ret = closers[t].lastFailed

\* C6's case: a Close() call in which the signal of two plugins failed
C6_Witness ==
    \E t \in Closers :
        /\ closers[t].pc = "done"
        /\ Cardinality(closers[t].failed) >= 2
        /\ closers[t].released = DOMAIN closers[t].copy

-----------------------------------------------------------------------------
(* Properties of the PortManager, checked under SpecPM *)

\* C7: GetPort never returns a port that an earlier GetPort returned and that
\* has not been released since.
C7_NoPortHandedOutTwice ==
    (pmLast.op = "GetPort" /\ ~pmLast.err) => pmLast.port \notin pmLast.heldBefore

\* C7's case: GetPort has passed over a port still held and returned another
C7_Witness ==
    /\ pmLast.op = "GetPort" /\ ~pmLast.err
    /\ NextCursor(pmLast.lastBefore) \in pmLast.heldBefore
    /\ pmLast.port \notin pmLast.heldBefore

\* C8: in every state the leased ports are the ports GetPort has returned
\* less those since passed to a successful ReleasePort.
C8_LeasesAreHeldPorts == usedPorts = held

\* C8's case: one of several held ports has been released
C8_Witness ==
    /\ pmLast.op = "ReleasePort" /\ ~pmLast.err
    /\ pmLast.arg \in pmLast.heldBefore
    /\ held # {}
    /\ usedPorts = held

\* C9 as claimed: every port GetPort returns is in [40000, 50000).
C9_PortBelowMax ==
    (pmLast.op = "GetPort" /\ ~pmLast.err)
        => minPort <= pmLast.port /\ pmLast.port < maxPort

\* C9 as amended: every port GetPort returns, wrap-around of the cursor
\* included, is in [40000, 50000], both ends included.
C9_PortInRange ==
    (pmLast.op = "GetPort" /\ ~pmLast.err)
        => minPort <= pmLast.port /\ pmLast.port <= maxPort

\* C9's case: the cursor was at the top of the range and GetPort wrapped
C9_Witness ==
    /\ pmLast.op = "GetPort" /\ ~pmLast.err
    /\ pmLast.lastBefore = maxPort
    /\ pmLast.port = minPort

\* what ReleasePort(port) does when it rejects the port, and when it accepts it
ReleaseRejected == pmLast.err /\ usedPorts = pmLast.usedBefore
ReleaseDone == ~pmLast.err /\ usedPorts = pmLast.usedBefore \ {pmLast.arg}

\* C10 as claimed: ReleasePort(port) with port < 40000 or port >= 50000
\* returns an error and leaves the leases as they are; with any other port it
\* removes that lease and returns nil.
C10_ReleaseHalfOpen ==
    pmLast.op = "ReleasePort"
        => IF pmLast.arg < minPort \/ pmLast.arg >= maxPort
           THEN ReleaseRejected ELSE ReleaseDone

\* C10 as amended: ReleasePort(port) with port < 40000 or port > 50000
\* returns an error and leaves the leases as they are; with a port in
\* [40000, 50000], both ends included, it removes that lease and returns nil.
C10_ReleaseClosed ==
    pmLast.op = "ReleasePort"
        => IF pmLast.arg < minPort \/ pmLast.arg > maxPort
           THEN ReleaseRejected ELSE ReleaseDone

\* C10's case: the lease of port 50000 has been released
C10_Witness ==
    /\ pmLast.op = "ReleasePort"
    /\ pmLast.arg = maxPort
    /\ pmLast.arg \in pmLast.usedBefore
    /\ ReleaseDone

\* C11: when every port of the range is leased, GetPort fails after its ten
\* attempts and adds no lease; a GetPort call that fails never changes the
\* leases.
C11_ExhaustedGetPortFails ==
    pmLast.op = "GetPort"
        => /\ pmLast.usedBefore = AllPorts
                => /\ pmLast.err
                   /\ lastAssigned = Ahead(pmLast.lastBefore, maxAttempts)
           /\ pmLast.err => usedPorts = pmLast.usedBefore

\* C11's case: GetPort has failed while every port of the range was leased
C11_Witness ==
    /\ pmLast.op = "GetPort"
    /\ pmLast.usedBefore = AllPorts
    /\ pmLast.err
    /\ usedPorts = AllPorts

-----------------------------------------------------------------------------
(* Properties of one LoadAll call, checked under SpecLoad *)

\* the step on which the deferred Close() of LoadAll closes plugin n
DeferredCloses(n) == n \notin closers[0].killed /\ n \in closers'[0].killed

\* C12: when LoadAll aborts with two or more plugins loaded, its deferred
\* Close() closes them in reverse load order: each plugin it closes is the
\* one loaded last among those it has still to close.
C12_TeardownInReverseOrder ==
    [][\A n \in closers[0].todo :
          DeferredCloses(n)
              => \A m \in closers[0].todo :
                    closers[0].copy[m].Process <= closers[0].copy[n].Process]_vars

\* the errors a failing load produces, and those a teardown produces (the
\* name of the plugin whose signal failed stands for the error of its Close)
ManifestErrors ==
    {"manifest must contain at least one plugin", "invalid plugin",
     "duplicate plugin name", "duplicate plugin path"}
CancelErrors ==
    {"plugin loading cancelled",
     "plugin failed to start within 10s: context canceled",
     "context cancelled while waiting for plugin to start: context canceled",
     "failed to start plugin process: context canceled"}
LoadErrors ==
    ManifestErrors \cup CancelErrors \cup
    {"custom TLS is not supported yet", "failed to generate private CA",
     "failed to generate server key and cert", "failed to get available port",
     "plugin kind is not supported", "failed to start plugin process",
     "plugin failed to start within 10s: context deadline exceeded",
     "failed to create client"}

\* C13: when LoadAll fails it returns no registry and the first error of the
\* load: loadErr is set once and never replaced, and what the teardown of the
\* plugins already loaded returns does not take its place.
C13_FirstErrorReturned ==
    /\ [](loadResult = "err"
            => /\ retErr \in LoadErrors
               /\ loadErr # "" => retErr = loadErr)
    /\ [][loadErr # "" => loadErr' = loadErr]_vars

\* C13's case: LoadAll has failed and the teardown of its plugins failed too
C13_Witness ==
    /\ loadResult = "err"
    /\ closers[0].pc = "done" /\ closers[0].ret # ""
    /\ retErr = loadErr /\ retErr # closers[0].ret

\* the readiness wait of plugin i has ended on the start timeout: LoadPlugin
\* failed with the start-timeout error, the group of the child has been
\* signalled and the port is no longer leased
StartTimedOut(i) ==
    /\ loadErr = "plugin failed to start within 10s: context deadline exceeded"
    /\ idx = i
    /\ sigterms[i] > 0
    /\ procPort[i] \notin usedPorts

\* C14: if a spawned plugin never answers on its port (the dial never
\* succeeds) and the caller does not cancel, the spawn eventually fails with
\* the start-timeout error, the process group of the child has been sent a
\* termination signal and the port has been released.
C14_StartTimeout ==
    \A i \in Procs :
        (pc = "Probe" /\ idx = i)
            ~> (pc = "CreateClient" \/ ctxDone \/ StartTimedOut(i))

\* C14's case: the second plugin of a manifest has timed out
C14_Witness ==
    /\ ~ctxDone
    /\ pc = "Deferred"
    /\ StartTimedOut(2)
    /\ proc[2] # "none"

\* the caller has cancelled while LoadAll is in its loop and a plugin of the
\* manifest is still to be recorded
CancelledDuringLoad ==
    /\ ctxDone
    /\ pc \in {"Loop", "StartServer", "Probe", "ProbeExpired", "CreateClient"}
    /\ Cardinality(DOMAIN pluginsMap) < Len(manifest.Plugins)

\* LoadAll has returned an error and no registry, every child it spawned for
\* a plugin it was loading or had loaded has been signalled, and the port of
\* every plugin it had loaded is released
ReturnedCancelled ==
    /\ loadResult = "err"
    /\ retErr # ""
    /\ \A n \in DOMAIN pluginsMap :
          /\ sigterms[pluginsMap[n].Process] > 0
          /\ pluginsMap[n].Port \notin usedPorts
    /\ \A i \in Procs : proc[i] # "none" => sigterms[i] > 0

\* C15: if the caller cancels while LoadAll is running and before the last
\* plugin has been loaded, LoadAll returns an error and no registry, with the
\* child of the spawn in flight signalled and every plugin loaded before
\* closed and its port released. (Any error is taken for the cancellation
\* error here: another failure of the load may come first.)
C15_CancelAbortsLoad ==
    [](CancelledDuringLoad => [](loadResult # "none" => ReturnedCancelled))

\* what makes a manifest invalid, said of the manifest itself
DuplicateNames(ps) ==
    \E i, j \in 1..Len(ps) : i < j /\ GetName(ps[i]) = GetName(ps[j])
DuplicatePaths(ps) ==
    \E i, j \in 1..Len(ps) : i < j /\ Abs(ps[i].Path) = Abs(ps[j].Path)
InvalidManifest(m) ==
    \/ Len(m.Plugins) = 0
    \/ \E i \in 1..Len(m.Plugins) : m.Plugins[i].Path = <<>>
    \/ \E i \in 1..Len(m.Plugins) : m.Plugins[i].Kind # "build_and_run"
    \/ DuplicateNames(m.Plugins)
    \/ DuplicatePaths(m.Plugins)

\* LoadAll has created nothing: no CA, no port manager, no lease, no subprocess
NothingCreated ==
    /\ ~caCreated /\ ~pmCreated
    /\ acquired = {} /\ usedPorts = {}
    /\ \A i \in Procs : proc[i] = "none"

\* C16: LoadAll on a manifest with no plugin, two equal effective names, two
\* equal absolute paths, an empty path or an unsupported kind returns a
\* manifest error, and creates no CA, acquires no port and spawns no
\* subprocess.
C16_InvalidManifestRejectedFirst ==
    InvalidManifest(manifest)
        => /\ NothingCreated
           /\ pc # "LoadManifest"
                => /\ pc = "Returned" /\ loadResult = "err"
                   /\ retErr \in ManifestErrors

\* C16's case: LoadAll has rejected a manifest of three plugins of which the
\* last has the absolute path of the first
C16_Witness ==
    /\ Len(manifest.Plugins) = 3
    /\ ~DuplicateNames(manifest.Plugins)
    /\ Abs(manifest.Plugins[1].Path) = Abs(manifest.Plugins[3].Path)
    /\ loadResult = "err" /\ retErr = "duplicate plugin path"
    /\ NothingCreated

\* ManifestConfig.Validate has accepted the manifest
Accepted == pc # "LoadManifest" /\ ~(pc = "Returned" /\ retErr \in ManifestErrors)

\* C18: in a manifest ManifestConfig.Validate accepts, the effective names are
\* pairwise distinct and so are the absolute paths; the registry LoadAll
\* builds from it has exactly one entry per descriptor.
C18_AcceptedNamesAndPathsDistinct ==
    Accepted
        => /\ ~DuplicateNames(manifest.Plugins)
           /\ ~DuplicatePaths(manifest.Plugins)
           /\ loadResult = "ok"
                => /\ Cardinality(DOMAIN pluginsMap) = Len(manifest.Plugins)
                   /\ DOMAIN pluginsMap = ManifestNames

\* C18's case: a registry of three plugins, one of them named after its path
C18_Witness ==
    /\ loadResult = "ok"
    /\ Len(manifest.Plugins) = 3
    /\ \E i \in 1..3 : manifest.Plugins[i].Name = ""
    /\ Cardinality(DOMAIN pluginsMap) = 3

-----------------------------------------------------------------------------
(* Properties of the validation of a manifest, checked under SpecManifest *)

\* a path has a parent-directory element
HasParentToken(path) == \E i \in 1..Len(path) : path[i] = ".."

\* a path is relative and has two consecutive dots in it
RelativeWithDotDot(path) ==
    /\ path # <<>> /\ path[1] # "/"
    /\ \E i \in 1..Len(path) : path[i] \in {"..", "a..b"}

-----------------------------------------------------------------------------
(* Properties of the credentials, checked under SpecPKI *)

\* C19: parsing the serialized form of a leaf credential issued by
\* GenerateKeyAndCertFromCA succeeds and gives back the same common name,
\* the same bytes of the leaf and of the CA certificate, and the same key.
C19_SerializeRoundTrip ==
    pkiBack.done
        => /\ pkiBack.err = ""
           /\ pkiBack.cred.CN = pkiCred.cred.CN
           /\ pkiBack.cred.CertBytes = pkiCred.cred.CertBytes
           /\ pkiBack.cred.Cert.Raw = pkiCred.cred.Cert.Raw
           /\ pkiBack.cred.CACertBytes = pkiCred.cred.CACertBytes
           /\ pkiBack.cred.CACert.Raw = pkiCred.cred.CACert.Raw
           /\ pkiBack.cred.Key = pkiCred.cred.Key

\* C19's case: a credential whose common name JSON has to escape has been
\* serialized and parsed back
C19_Witness ==
    /\ pkiBack.done /\ pkiBack.err = ""
    /\ pkiCred.cred.CN = <<"<", "\\", "a">>
    /\ pkiWire.data.cn # pkiCred.cred.CN
    /\ pkiBack.cred.CN = pkiCred.cred.CN

-----------------------------------------------------------------------------
(* C21: the round trip of a LoggerOptions record *)

\* the attributes as what JSON can tell apart: the set of (key, JSON value)
AttrPairs(attrs) ==
    {[Key |-> attrs[i].Key, Value |-> JSONValue(attrs[i].Value)] : i \in DOMAIN attrs}
DistinctKeys(attrs) == \A i, j \in DOMAIN attrs : i # j => attrs[i].Key # attrs[j].Key
ValidStrings(r) ==
    /\ ValidUTF8(r.Type)
    /\ \A i \in DOMAIN r.Attributes :
         /\ ValidUTF8(r.Attributes[i].Key)
         /\ r.Attributes[i].Value.kind = "String" => ValidUTF8(r.Attributes[i].Value.v)
SameTypeLevelAttrs(r, back) ==
    /\ back.Type = r.Type
    /\ back.Level = r.Level
    /\ Len(back.Attributes) = Len(r.Attributes)
    /\ AttrPairs(back.Attributes) = AttrPairs(r.Attributes)

\* C21, as stated: for every LoggerOptions record, decoding its encoding
\* yields the same type, the same level (nil stays nil) and the same
\* attributes (as many, with the same keys and the same JSON values), also
\* when attributes share a key
C21_RoundTripEveryRecord ==
    logopts.back.done => SameTypeLevelAttrs(logopts.in, logopts.back.rec)

\* C21, amended: for every LoggerOptions record whose strings are valid
\* UTF-8 and whose attribute keys are pairwise distinct, decoding its
\* encoding yields the same type, the same level (nil stays nil) and as many
\* attributes, with the same keys and the same JSON values
C21_RoundTripDistinctKeys ==
    (logopts.back.done /\ ValidStrings(logopts.in) /\ DistinctKeys(logopts.in.Attributes))
        => SameTypeLevelAttrs(logopts.in, logopts.back.rec)

\* two attributes of distinct keys and a level came back, the attributes in
\* the other order
C21_Witness ==
    /\ logopts.back.done
    /\ logopts.in.Level.set
    /\ Len(logopts.in.Attributes) = 2
    /\ DistinctKeys(logopts.in.Attributes)
    /\ logopts.back.rec.Attributes[1].Key = logopts.in.Attributes[2].Key
    /\ SameTypeLevelAttrs(logopts.in, logopts.back.rec)


-----------------------------------------------------------------------------
(* C22, C23, C24: the plugin side *)

\* C22: when a step of StartPlugin before serving fails (the credential of
\* -tls_key_and_cert does not deserialize, the listener cannot be bound, the
\* TLS configuration cannot be built), the plugin process exits with a
\* status other than 0
C22_StartupFailureExitsNonZero ==
    (stub.pc = "Stopped" /\ stub.failure # "") => stub.exit \notin {"running", "0"}

\* C23: StartPlugin never moves back in Parsing, Bound, Registered, Serving,
\* ShuttingDown, Stopped; the plugin's Start is called once, when the
\* listener is bound and before the goroutine of s.Serve is started; and
\* neither s.GracefulStop nor s.Stop is called before that goroutine has
\* been started, whenever the termination signal arrives
C23_StubMovesForward ==
    /\ [][ /\ StubRank(stub'.pc) >= StubRank(stub.pc)
           /\ stub'.starts # stub.starts =>
                 (stub.pc = "Bound" /\ stub'.starts = 1 /\ stub'.serve = "none")
           /\ (stub'.graceful # stub.graceful \/ stub'.forced # stub.forced) =>
                 (stub.serve # "none" /\ StubRank(stub.pc) >= StubRank("Serving")) ]_vars
    /\ [](stub.serve # "none" => stub.starts = 1)
    /\ []((stub.pc = "Stopped" /\ stub.failure = "") => stub.starts = 1)

\* the signal came while the listener was being bound; Start was called once
\* and the shutdown has begun
C23_Witness ==
    /\ stub.sigAt = "Listen"
    /\ stub.pc = "ShuttingDown"
    /\ stub.starts = 1
    /\ stub.serve # "none"

\* C24: once StartPlugin waits on ctx.Done() with the serving goroutine
\* started, a termination signal delivered or a failure of s.Serve leads to
\* Stopped; and StartPlugin returns from there only after s.GracefulStop
\* was started and either it returned or, at the deadline, s.Stop was called
C24_ShutdownReachesStopped ==
    /\ (stub.pc = "Serving" /\ (stub.sig # "none" \/ stub.serve = "failed"))
          ~> stub.pc = "Stopped"
    /\ []((stub.pc = "Stopped" /\ stub.failure = "") =>
             (stub.graceful # "none" /\ (stub.graceful = "done" \/ stub.forced)))

\* the signal came while serving, s.GracefulStop has not returned, and
\* StartPlugin has returned after s.Stop
C24_Witness ==
    /\ stub.sigAt = "Serving"
    /\ stub.pc = "Stopped"
    /\ stub.graceful = "running"
    /\ stub.forced


-----------------------------------------------------------------------------
(* C25: custom TLS *)

\* C25: a LoadAll call on a manifest whose TLS options set UseCustomTLS
\* never creates a CA or a port manager, never acquires a port, never spawns
\* a subprocess and never records a plugin; when it returns, it returns an
\* error and no registry
C25_CustomTLSRejected ==
    manifest.UseCustomTLS =>
        /\ NothingCreated
        /\ acquired = {} /\ usedPorts = {}
        /\ pc \in {"LoadManifest", "NewTransportGenerator", "Returned"}
        /\ pc = "Returned" => (loadResult = "err" /\ retErr # "")

\* a manifest that is valid but for UseCustomTLS has been refused for it
C25_Witness ==
    /\ manifest.UseCustomTLS
    /\ manifest.Plugins # <<>>
    /\ pc = "Returned"
    /\ retErr = "custom TLS is not supported yet"
    /\ NothingCreated


-----------------------------------------------------------------------------
(* SpecRead: one LoadAll call; once it has returned the registry, the      *)
(* caller reads it, from any goroutine and at any time, and one goroutine  *)
(* calls Close. A read holds l.mu.RLock from its first statement to its    *)
(* return: it is one step.                                                 *)

outsideRead == <<pmVars, inputVars, ctxDone, loadVars, procVars, closers, clientVars,
                 pkiVars, sideVars>>

\* GetPlugin(name) and GetRawPlugin(name)
R_GetPlugin(op, name) ==
    /\ loadResult = "ok"
    /\ LET r == GetPlugin(pluginsMap, name) IN
       lastRead' = [op |-> op, name |-> name, found |-> r.found, plugin |-> r.plugin,
                    all |-> {}]
    /\ UNCHANGED outsideRead

\* GetAllPlugins() and GetAllRawPlugins()
R_GetAllPlugins(op) ==
    /\ loadResult = "ok"
    /\ lastRead' = [NoRead EXCEPT !.op = op, !.all = GetAllPlugins(pluginsMap)]
    /\ UNCHANGED outsideRead

NextRead ==
    \/ NextLoad
    \/ CloseBegin(1)
    \/ \E name \in closers[1].todo : ClosePlugin(1, name)
    \/ CloseRelease(1)
    \/ CloseReturn(1)
    \/ \E op \in {"GetPlugin", "GetRawPlugin"}, name \in AskedNames : R_GetPlugin(op, name)
    \/ \E op \in {"GetAllPlugins", "GetAllRawPlugins"} : R_GetAllPlugins(op)

SpecRead == Init /\ [][NextRead]_vars

(* C26: the read operations *)

\* the handle LoadAll recorded for descriptor i: its port and its subprocess
RecordedAtLoad(i) == [Port |-> procPort[i], Process |-> i]

\* C26: a read changes nothing but what it returns: the map, the leases, the
\* cursor, the subprocesses and the signals sent are the same before and
\* after; GetPlugin(name) and GetRawPlugin(name) return the handle recorded
\* at load for the name of a descriptor and not-found for any other name;
\* GetAllPlugins and GetAllRawPlugins return the handles recorded at load
C26_ReadsChangeNothing ==
    [][lastRead' # lastRead =>
        /\ UNCHANGED outsideRead
        /\ lastRead'.op \in {"GetPlugin", "GetRawPlugin"} =>
             /\ lastRead'.found <=> lastRead'.name \in ManifestNames
             /\ \A i \in 1..Len(manifest.Plugins) :
                  GetName(manifest.Plugins[i]) = lastRead'.name =>
                      lastRead'.plugin = RecordedAtLoad(i)
        /\ lastRead'.op \in {"GetAllPlugins", "GetAllRawPlugins"} =>
             lastRead'.all = {RecordedAtLoad(i) : i \in 1..Len(manifest.Plugins)}
    ]_vars

\* a plugin of a registry of two has been read while a Close call was on its
\* way
C26_Witness ==
    /\ lastRead.op = "GetRawPlugin"
    /\ lastRead.found
    /\ Len(manifest.Plugins) = 2
    /\ lastRead.plugin = RecordedAtLoad(2)
    /\ closers[1].pc \notin {"idle", "done"}


-----------------------------------------------------------------------------
(* C27: the role of a leaf credential *)

\* C27: asking for a leaf credential with a role that is neither server nor
\* client fails with the invalid-role error and returns no credential,
\* whatever the CA, the subject, the key and the serial number
C27_InvalidRoleRejected ==
    (pkiCred.done /\ pkiIn.role \notin {"server", "client"})
        => /\ pkiCred.err = "invalid role"
           /\ pkiCred.cred = NoCred
           /\ GenerateKeyAndCertFromCA(pkiIn.ca, pkiIn.subject, pkiIn.role,
                                       pkiIn.serverKey, pkiIn.sn)
                = [err |-> "invalid role", cred |-> NoCred]

\* a credential of another role was asked for, with a subject a certificate
\* can be made for, and refused
C27_Witness ==
    /\ pkiCred.done
    /\ pkiIn.role = "other"
    /\ pkiIn.subject = <<"a">>
    /\ pkiCred.err = "invalid role"


-----------------------------------------------------------------------------
(* C28, C29, C30: the load of one plugin and the order of the loads *)

\* the errors of startPluginServer once GetPort has returned a port
StartErrors ==
    {"plugin kind is not supported",
     "failed to start plugin process",
     "failed to start plugin process: context canceled",
     "plugin failed to start within 10s: context deadline exceeded",
     "plugin failed to start within 10s: context canceled",
     "context cancelled while waiting for plugin to start: context canceled"}

\* the port GetPort returned last: the cursor stays on it
LastPort == lastAssigned

\* C28: when the start of a plugin's subprocess fails after its port was
\* acquired, then from the moment LoadPlugin has failed on, that port has
\* been released exactly once and is not leased, and the plugin is not in
\* the registry
C28_StartFailureReleasesPort ==
    loadErr \in StartErrors =>
        /\ LastPort \in acquired
        /\ procPort[idx] \in {0, LastPort}
        /\ releases[LastPort] = 1
        /\ LastPort \notin usedPorts
        /\ GetName(manifest.Plugins[idx]) \notin DOMAIN pluginsMap
        /\ \A n \in DOMAIN pluginsMap : pluginsMap[n].Port # LastPort

\* the process of the second plugin could not be created, its port was
\* released, and LoadAll has returned; the first plugin had been loaded
C28_Witness ==
    /\ loadErr = "failed to start plugin process"
    /\ idx = 2
    /\ pc = "Returned"
    /\ proc[2] = "none"
    /\ releases[LastPort] = 1
    /\ Cardinality(acquired) = 2


\* C29: when createPluginClient fails for a spawned plugin, then from the
\* moment LoadPlugin has failed on, the process group of that plugin has
\* been sent the termination signal, once; the plugin is not in the
\* registry; nothing more is acquired or spawned (no second attempt, no
\* later descriptor); and LoadAll returns that error and no registry
C29_ClientFailureAbortsLoad ==
    loadErr = "failed to create client" =>
        /\ sigterms[idx] = 1
        /\ proc[idx] # "none"
        /\ GetName(manifest.Plugins[idx]) \notin DOMAIN pluginsMap
        /\ Cardinality(acquired) = idx
        /\ \A j \in Procs : j > idx => proc[j] = "none"
        /\ pc \in {"Deferred", "Returned"}
        /\ pc = "Returned" => (loadResult = "err" /\ retErr = "failed to create client")

\* the client of the second plugin of three could not be built: its group
\* was signalled and LoadAll has returned the error
C29_Witness ==
    /\ loadErr = "failed to create client"
    /\ idx = 2 /\ Len(manifest.Plugins) = 3
    /\ pc = "Returned"
    /\ retErr = "failed to create client"
    /\ sigterms[2] = 1

\* descriptor j has been spawned, connected and recorded
Recorded(j) ==
    /\ proc[j] # "none"
    /\ GetName(manifest.Plugins[j]) \in DOMAIN pluginsMap
    /\ pluginsMap[GetName(manifest.Plugins[j])] = [Port |-> procPort[j], Process |-> j]

\* C30: LoadAll handles the descriptors one at a time, in the order of the
\* manifest: a port has been acquired or a subprocess spawned for descriptor
\* i only if every descriptor before it has been spawned, connected and
\* recorded; and once the load of a descriptor has failed, no descriptor
\* after it is ever spawned
C30_LoadsInManifestOrder ==
    /\ \A i \in Procs :
         (proc[i] # "none" \/ procPort[i] # 0) =>
             /\ i <= Len(manifest.Plugins)
             /\ i <= idx
             /\ \A j \in 1..(i - 1) : Recorded(j)
    /\ Cardinality(acquired) <= Cardinality(DOMAIN pluginsMap) + 1
    /\ acquired # {} => \A j \in 1..(Cardinality(acquired) - 1) : Recorded(j)
    /\ loadErr # "" => \A j \in Procs : j > idx => proc[j] = "none"

\* of three descriptors the first was loaded, the second was spawned and
\* failed, the third was never spawned, and LoadAll has returned
C30_Witness ==
    /\ Len(manifest.Plugins) = 3
    /\ loadErr # "" /\ idx = 2
    /\ pc = "Returned"
    /\ Recorded(1)
    /\ proc[2] # "none"
    /\ proc[3] = "none"


-----------------------------------------------------------------------------
(* C31, C32: the order of a Close call, and Close calls on one registry *)

\* C31: within a Close call, the port of a plugin goes to ReleasePort only
\* after the process group of that plugin was sent the signal, and it goes
\* there whether or not the signal could be sent: between two plugins and at
\* its return, the call has released the port of every plugin it signalled
C31_SignalThenRelease ==
    \A t \in Closers :
        /\ closers[t].released \subseteq closers[t].killed
        /\ closers[t].failed \subseteq closers[t].killed
        /\ closers[t].pc \in {"iter", "done"} => closers[t].released = closers[t].killed
        /\ closers[t].pc = "release" =>
              closers[t].killed = closers[t].released \cup {closers[t].cur}

\* a Close call has returned after it failed to signal one of two plugins:
\* it has released both ports
C31_Witness ==
    \E t \in Callers :
        /\ closers[t].pc = "done"
        /\ Cardinality(closers[t].killed) = 2
        /\ closers[t].failed # {}
        /\ closers[t].released = closers[t].killed
        /\ \A n \in closers[t].released : releases[closers[t].copy[n].Port] >= 1

\* C32: of the Close calls made on one registry, at the same time or one
\* after the other, at most one signals the process group of a given plugin
\* and at most one releases its port
C32_ClosedByOneCall ==
    \A n \in DOMAIN pluginsMap :
        /\ Cardinality({t \in Closers : n \in closers[t].killed}) <= 1
        /\ Cardinality({t \in Closers : n \in closers[t].released}) <= 1
        /\ sigterms[pluginsMap[n].Process] <= 1
        /\ releases[pluginsMap[n].Port] <= 1


-----------------------------------------------------------------------------
(* C33: the attempts of GetPort *)

\* the j-th port after the cursor, going round from maxPort to minPort
Candidate(last, j) == minPort + ((last - minPort + j) % (maxPort - minPort + 1))

\* environments of a GetPort call: net.Listen fails on any of the first
\* three candidates, or on the first k of them
BindFailures(last) ==
    SUBSET {Candidate(last, j) : j \in 1..3}
      \cup {{Candidate(last, j) : j \in 1..k} : k \in 0..maxAttempts}

\* the attempts that would succeed: the candidate is not leased and binds
GoodAttempts(used, last, busy) ==
    {j \in 1..maxAttempts : Candidate(last, j) \notin used /\ Candidate(last, j) \notin busy}

\* most GetPort calls of SpecAttempts
MaxAttemptCalls == 2

(* SpecAttempts: a PortManager whose callers' GetPort calls meet any of the *)
(* environments of BindFailures; the call on record keeps its environment   *)

\* a caller calls GetPort
A_GetPort ==
    /\ pmOps < MaxAttemptCalls
    /\ \E busy \in BindFailures(lastAssigned) :
         LET r == GetPort(usedPorts, lastAssigned, busy) IN
         /\ usedPorts' = r.usedPorts
         /\ lastAssigned' = r.lastAssigned
         /\ held' = IF r.err THEN held ELSE held \cup {r.port}
         /\ pmLast' = [op |-> "GetPort", arg |-> 0, port |-> r.port, err |-> r.err,
                       usedBefore |-> usedPorts, heldBefore |-> held,
                       lastBefore |-> lastAssigned, busy |-> busy]
    /\ pmOps' = pmOps + 1
    /\ UNCHANGED outsidePM

NextAttempts == A_GetPort \/ PMReleasePort

SpecAttempts == InitPM /\ [][NextAttempts]_vars

\* C33: whatever the state of the port manager and whatever ports fail to
\* bind, GetPort looks at the ten ports after the cursor, going round at the
\* end of the range, one attempt each, leased or not: it returns the first
\* of them that is neither leased nor failing to bind, leases it and leaves
\* the cursor on it; when none of the ten is such, it fails, leases nothing
\* and leaves the cursor ten ports further, whatever ports are free beyond
C33_TenAttempts ==
    pmLast.op = "GetPort" =>
        LET good == GoodAttempts(pmLast.usedBefore, pmLast.lastBefore, pmLast.busy) IN
        /\ \E j \in 1..maxAttempts : lastAssigned = Candidate(pmLast.lastBefore, j)
        /\ IF good = {}
           THEN /\ pmLast.err
                /\ usedPorts = pmLast.usedBefore
                /\ lastAssigned = Candidate(pmLast.lastBefore, maxAttempts)
           ELSE LET first == CHOOSE j \in good : \A i \in good : j <= i IN
                /\ ~pmLast.err
                /\ pmLast.port = Candidate(pmLast.lastBefore, first)
                /\ lastAssigned = pmLast.port
                /\ usedPorts = pmLast.usedBefore \cup {pmLast.port}

\* a GetPort call has failed after ten attempts that went round the end of
\* the range, some on leased ports and the others on ports that did not
\* bind, while the port after its last candidate is free
C33_Witness ==
    /\ pmLast.op = "GetPort" /\ pmLast.err
    /\ pmLast.lastBefore > maxPort - maxAttempts
    /\ lastAssigned < pmLast.lastBefore
    /\ \E j \in 1..maxAttempts : Candidate(pmLast.lastBefore, j) \in pmLast.usedBefore
    /\ \E j \in 1..maxAttempts : Candidate(pmLast.lastBefore, j) \notin pmLast.usedBefore
    /\ Candidate(lastAssigned, 1) \notin usedPorts


-----------------------------------------------------------------------------
(* C34: the two ways the readiness probe gives up *)

\* the errors of the probe by the context error they wrap
ProbeTimeoutErrors == {"plugin failed to start within 10s: context deadline exceeded"}
ProbeCancelErrors ==
    {"plugin failed to start within 10s: context canceled",
     "context cancelled while waiting for plugin to start: context canceled"}

-----------------------------------------------------------------------------
(* C35, C36: the caller's context and LoadAll *)

\* LoadAll has returned the registry, every subprocess runs and the caller
\* has not cancelled the context
ReturnedUncancelled ==
    /\ pc = "Returned" /\ loadResult = "ok"
    /\ ~ctxDone
    /\ \A n \in DOMAIN pluginsMap : proc[pluginsMap[n].Process] = "running"

\* every subprocess of the registry that no longer runs was signalled by a
\* Close call on the registry
OnlyCloseTerminated ==
    \A n \in DOMAIN pluginsMap :
        proc[pluginsMap[n].Process] # "running" =>
            \E t \in Callers : n \in closers[t].killed

\* ---- Spec with the scheduling of the watcher goroutines of os/exec: a
\* watcher whose context is done and whose process runs gets to kill it
SpecWatch == Init /\ [][Next]_vars /\ \A i \in Procs : WF_vars(ExecWatcher(i))

\* C35: from the successful return of LoadAll on, whatever the caller does
\* with the context it had passed, a subprocess of the registry stops
\* running only after a Close call of the registry has signalled it
C35_OnlyCloseTerminates ==
    [](ReturnedUncancelled => []OnlyCloseTerminated)


\* LoadAll is called with a context that is done already, on a manifest that
\* is valid and asks for no custom TLS
CalledCancelled ==
    /\ pc = "LoadManifest"
    /\ ctxDone
    /\ LoadManifest(manifest, allowDotDot) = ""
    /\ ~manifest.UseCustomTLS

\* no port has been acquired and no subprocess spawned; if LoadAll has
\* returned, it has returned no registry and the cancellation error (or the
\* error of a private CA that could not be generated)
AbortedBeforeFirstPlugin ==
    /\ acquired = {} /\ usedPorts = {}
    /\ \A i \in Procs : proc[i] = "none"
    /\ pluginsMap = <<>>
    /\ loadResult # "ok"
    /\ loadResult = "err" =>
          retErr \in {"plugin loading cancelled", "failed to generate private CA"}

\* C36: a LoadAll call entered with a context that is done already, on a
\* valid manifest, never acquires a port and never spawns a subprocess, and
\* returns the cancellation error and no registry
C36_CancelledBeforeCall ==
    [](CalledCancelled => []AbortedBeforeFirstPlugin)

\* LoadAll has gone as far as its loop, found the context done and returned
\* the cancellation error with nothing acquired or spawned
C36_Witness ==
    /\ ctxDone
    /\ pc = "Returned"
    /\ retErr = "plugin loading cancelled"
    /\ caCreated /\ pmCreated
    /\ Len(manifest.Plugins) = 2
    /\ acquired = {}
    /\ \A i \in Procs : proc[i] = "none"

\* ---- one LoadAll call on the manifests of SpecManifest, whose descriptors
\* have absolute paths too
SpecDir == InitManifest /\ [][NextLoad]_vars

\* C37: the working directory of a spawned build_and_run plugin is the
\* absolute path manifest validation resolved for its descriptor
\* (filepath.Abs of the descriptor's path), for relative and absolute
\* descriptor paths alike
C37_DirIsValidatedPath ==
    \A i \in Procs :
        (i \in 1..Len(manifest.Plugins) /\ proc[i] # "none") =>
            procDir[i] = Abs(manifest.Plugins[i].Path)

====
